---- MODULE Spec2Model ----
(***************************************************************************)
(* PeerVault: a peer-to-peer content-addressed file store.                 *)
(*                                                                         *)
(* The model follows internal/network/server.go (FileServer), store.go     *)
(* (Store), p2p/transport.go (TCPTransport, TCPPeer), p2p/encoding.go      *)
(* (DefaultDecoder), internal/crypto/crypto.go and the quota manager.      *)
(*                                                                         *)
(* Abstractions.                                                           *)
(*  - A byte is a bit (0 or 1); the frame tags 0x01 and 0x02 are the byte  *)
(*    values 1 and 2.  A connection carries a sequence of tokens: a byte,  *)
(*    a gob-encoded Message (read by one Read call of the decoder) or an   *)
(*    8-byte little-endian size prefix.                                    *)
(*  - SHA-256 is a collision-free hash: the digest of a string is the pair *)
(*    (number of hash applications, hashed string), so two digests are     *)
(*    equal exactly when the hashed strings are.                           *)
(*  - AES-CTR is a keystream XOR; the keystream depends on key, IV and     *)
(*    position.                                                            *)
(*  - A node's id is its listen address.  Peer exchange and mDNS discovery *)
(*    are off (they are enabled by flags).                                 *)
(*  - Reads of one connection are serialized by its read lock: the read    *)
(*    loop holds it while it is blocked in Decode; a handler or Get reads  *)
(*    while the loop waits on the gate, after the loop has exited, or once *)
(*    the connection has ended.                                            *)
(*                                                                         *)
(* Specifications.                                                         *)
(*  - Spec: three nodes, n2 and n3 bootstrapped with n1, no failure.       *)
(*  - SpecFail: the same network with connection failures.                 *)
(*  - SpecLocal: one node without peers, every user key and payload.       *)
(*  - Smaller specifications for one mechanism each are defined after      *)
(*    these three (garbage collection, dialer and discovery, the store and *)
(*    the cipher on their own, unordered readers, failing writes, shared   *)
(*    connections, stalled streams, registry accesses, shutdown).          *)
(***************************************************************************)
EXTENDS Integers, Sequences, FiniteSets, TLC

\* ------------------------------------------------------------------ bounds
MaxLen     == 2   \* longest client payload, in bytes
MaxOps     == 3   \* client calls (Store/Get/Delete) started in a run
MaxFailOps == 1   \* client calls started in a run with connection failures
MaxLocalOps == 2  \* client calls started in a run of a node without peers
MaxBreaks  == 1   \* connection failures in a run
MaxQueue   == 2   \* capacity of the inbound queue rpcch in the model
MaxStorageBytes == 3  \* the configured quota (QuotaConfig.MaxStorageBytes)
MaxGCOps   == 2   \* client calls started in a run with garbage collection
MaxAlters  == 1   \* files altered on disk behind the store's back in a run
MaxSweeps  == 2   \* garbage-collection sweeps in a run
MaxStoreOps == 3  \* operations applied to a store on its own in a run
MaxCryptoOps == 2 \* calls of CopyEncrypt / CopyDecrypt on their own in a run
MaxRaceOps == 2   \* client calls started in a run with unordered readers
MaxWedgeOps == 1  \* client calls started in a run with failing store writes
MaxFaults  == 1   \* store writes that fail (disk full, no permission) in a run
MaxPutOps  == 2   \* Store calls started in a run whose local write may fail
MaxPutBreaks == 1 \* connections that end in such a run
MaxPutLen  == 1   \* longest payload of such a call
MaxShareOps == 4  \* client calls started in a run of two nodes sharing a connection
MaxStallOps == 2  \* client calls started in a run of three fully connected nodes
MaxStopOps == 2   \* client calls started in a run in which a node is stopped
PathDepth  == 3   \* directory levels between <root>/<id> and a file
MaxErrOps  == 1   \* client calls started in a run of two nodes whose connection may fail
MaxGossipLen == 2 \* entries in a peer exchange message
MaxFrames  == 2   \* peer exchange messages written to a connection in a run
MaxGossip  == 2   \* peer exchange messages handed to the service in a run
MaxExchanges == 1 \* firings of the exchange ticker in a run
MaxMdnsClock == 10 \* minutes a run of mDNS discovery lasts
MaxJanitorClock == 15 \* minutes a run that watches the discovery cache lasts
MaxGossipClock == 10  \* minutes a run with peer exchange messages on the wire lasts
MaxPexClock == 40 \* minutes a run of the peer exchange service lasts

\* ------------------------------------------------------- program constants
IncomingMessage == 1
IncomingStream  == 2
IVLen           == 16  \* aes block size: length of the IV CopyEncrypt prepends
SizeOverhead    == 16  \* the literal added to the size in the StoreFile notice
HashLen         == 64  \* length of a leaf name that verifyIntegrity checks
DigestHexLen    == 64  \* length of the hex digest CASPathTransformFunc names files with
MaxRetries      == 3   \* TCPTransport.Dial: attempts when MaxRetries is not configured
SuppressWindow  == 5    \* minutes an address stays suppressed (discovery.go)
DiscoveryStale  == 10   \* minutes, cutoff of DiscoveryService.CleanupOldPeers
PexStale        == 30   \* minutes, cutoff of cleanupOldPeers (pex.go)
CleanupPeriod   == 10   \* minutes, ticker of periodicCleanup (pex.go)
PexLimit        == 20   \* entries in one peer exchange message (pex.go)
MdnsPort        == 3000  \* the port EnableLocalDiscovery gives the discovery service

\* ------------------------------------------------------------ value spaces
Nodes == {"n1", "n2", "n3"}      \* node id = listen address
Bits  == {0, 1}

RECURSIVE SeqsUpTo(_)
SeqsUpTo(k) ==
    IF k = 0 THEN {<<>>}
    ELSE LET S == SeqsUpTo(k - 1)
         IN  S \cup {Append(s, b) : s \in {x \in S : Len(x) = k - 1}, b \in Bits}

Blobs == SeqsUpTo(MaxLen)        \* client payloads
Names == {<<0>>, <<1>>, <<0, 1>>} \* user keys (strings are byte sequences)
IVs   == {[i \in 1..IVLen |-> c] : c \in Bits}

Min(a, b) == IF a < b THEN a ELSE b

RECURSIVE SumSeq(_)
SumSeq(s) == IF s = <<>> THEN 0 ELSE Head(s) + SumSeq(Tail(s))

SetToSeq(S) ==
    CHOOSE s \in [1..Cardinality(S) -> S] : \A x \in S : \E i \in DOMAIN s : s[i] = x

\* ------------------------------------------------------------------ crypto
\* A key string: s is the underlying string, h the number of times SHA-256
\* (hex-encoded) has been applied to it.
Str(name) == [h |-> 0, s |-> name]
NoKey     == [h |-> 0, s |-> <<>>]

\* crypto.HashKey: hex(sha256(key))
HashKey(key) == [h |-> key.h + 1, s |-> key.s]

\* calculateFileHash: hex(sha256(file content))
calculateFileHash(data) == [h |-> 1, s |-> data]

\* XOR of a byte with one keystream bit
XorByte(a, k) == IF k = 0 THEN a ELSE IF a % 2 = 0 THEN a + 1 ELSE a - 1

\* i-th keystream byte of AES-CTR under key and iv
KeyStream(key, iv, i) == (key + (IF iv = <<>> THEN 0 ELSE iv[1]) + i) % 2

\* copyStream: XOR every byte of src with the keystream
copyStream(key, iv, src) == [i \in 1..Len(src) |-> XorByte(src[i], KeyStream(key, iv, i))]

\* CopyEncrypt: the IV followed by the encrypted source
CopyEncrypt(key, iv, src) == iv \o copyStream(key, iv, src)

\* the byte count copyStream returns: blockSize plus the bytes written
copyStreamN(blockSize, src) == blockSize + Len(src)

\* the byte count CopyEncrypt returns
CopyEncryptN(src) == copyStreamN(IVLen, src)

\* the byte count CopyDecrypt returns: the bytes after the IV
CopyDecryptN(src) == copyStreamN(0, SubSeq(src, Min(IVLen, Len(src)) + 1, Len(src)))

\* a decryption that takes no IV off the source and decrypts all of it
DecryptWithIV(key, src) == copyStream(key, <<>>, src)

\* CopyDecrypt: the first IVLen bytes are the IV, the rest is decrypted
CopyDecrypt(key, src) ==
    LET n  == Min(IVLen, Len(src))
        iv == SubSeq(src, 1, n)
    IN  copyStream(key, iv, SubSeq(src, n + 1, Len(src)))

\* the encryption key each node is started with
EncKey(n) == IF n = "n3" THEN 1 ELSE 0

\* ------------------------------------------------------------------- store
\* CASPathTransformFunc: Filename is the hex digest of the key; PathName its
\* 5-character segments, of which the model keeps PathDepth.  Digests of
\* strings of equal length share the first segment in the model (Delete
\* removes that subtree), so that both colliding and non-colliding pairs of
\* keys exist; the deeper segments differ whenever the keys differ.
CASPathTransformFunc(key) ==
    [PathName |-> [i \in 1..PathDepth |-> IF i = 1 THEN Len(key.s) % 2 ELSE key],
     Filename |-> HashKey(key)]

FirstPathName(pathKey) == pathKey.PathName[1]

\* the file <root>/<id>/<PathName>/<Filename>
FullPath(id, key) ==
    LET pk == CASPathTransformFunc(key)
    IN  [id |-> id, first |-> FirstPathName(pk), dir |-> pk.PathName, leaf |-> pk.Filename]

\* the directory <root>/<id>/<segs>; the store holds an entry for a directory
\* that may be empty, the directories above a file exist with the file
Dir(id, segs) == [id |-> id, first |-> segs[1], dir |-> segs, leaf |-> NoKey]

IsDir(q) == q.leaf.h = 0

\* entry q lies in directory d or below it
Under(q, d) ==
    /\ q # d /\ q.id = d.id
    /\ Len(q.dir) >= Len(d.dir) /\ SubSeq(q.dir, 1, Len(d.dir)) = d.dir

\* os.ReadDir(d) returns no entry
IsEmptyDir(f, d) == d \in DOMAIN f /\ IsDir(d) /\ ~\E q \in DOMAIN f : Under(q, d)

\* the directories above the directory of q, below <root>/<id>
Ancestors(q) == {Dir(q.id, SubSeq(q.dir, 1, k)) : k \in 1..(Len(q.dir) - 1)}

\* Store.Has
Has(f, id, key) == FullPath(id, key) \in DOMAIN f

\* a write that opens the file for appending instead of truncating it
appendStream(f, id, key, data) ==
    LET p == FullPath(id, key)
    IN  [q \in DOMAIN f \cup {p} |-> IF q = p
                                      THEN (IF p \in DOMAIN f THEN f[p] ELSE <<>>) \o data
                                      ELSE f[q]]

\* Store.openFileForWriting followed by the copy of data into the file
writeStream(f, id, key, data) ==
    LET p == FullPath(id, key)
    IN  [q \in DOMAIN f \cup {p} |-> IF q = p THEN data ELSE f[q]]

\* a Write that loses the last byte of the data
WriteShort(f, id, key, data) == writeStream(f, id, key, SubSeq(data, 1, Len(data) - 1))

\* Store.Write
Write(f, id, key, data) == writeStream(f, id, key, data)

\* Store.WriteDecrypt
WriteDecrypt(f, encKey, id, key, src) == writeStream(f, id, key, CopyDecrypt(encKey, src))

\* Store.Read / readStream (the caller has checked Has)
Read(f, id, key) == f[FullPath(id, key)]

\* a Delete that removes nothing
DeleteNothing(f, id, key) == f

\* Store.Delete: os.RemoveAll(<root>/<id>/<first segment>)
StoreDelete(f, id, key) ==
    LET p == FullPath(id, key)
        keep == {q \in DOMAIN f : ~(q.id = p.id /\ q.first = p.first)}
    IN  [q \in keep |-> f[q]]

EmptyStore == [q \in {} |-> <<>>]

\* ------------------------------------------------------------------- quota
QuotaConfigSize == 1  \* size of <root>/.quota_config.json in the model

\* QuotaManager.GetCurrentUsage: sum of the sizes of all files under the root
GetCurrentUsage(f) ==
    LET ps == SetToSeq(DOMAIN f)
    IN  SumSeq([i \in DOMAIN ps |-> Len(f[ps[i]])]) + QuotaConfigSize

\* QuotaManager.CheckQuota
CheckQuota(f, newFileSize) == newFileSize <= MaxStorageBytes - GetCurrentUsage(f)


\* ------------------------------------------------------- garbage collector
\* length of a file name: every file under <root>/<id> is named by
\* CASPathTransformFunc with the hex digest of its key
NameLen(leaf) == IF leaf.h > 0 THEN DigestHexLen ELSE Len(leaf.s)

\* a sweep that removes nothing
verifyNothing(f, id) == f

\* GarbageCollector.verifyIntegrity: walks <root>/<id>; a file whose name has
\* HashLen characters and differs from the digest of the file's content is
\* removed with the directory that contains it, os.RemoveAll(filepath.Dir(path)):
\* the directory of the last segment goes with all it holds, the directories
\* above it stay
verifyIntegrity(f, id) ==
    LET bad  == {q \in DOMAIN f : /\ q.id = id
                                  /\ NameLen(q.leaf) = HashLen
                                  /\ calculateFileHash(f[q]) # q.leaf}
        gone == {q \in DOMAIN f : \E b \in bad : q = Dir(b.id, b.dir) \/ Under(q, Dir(b.id, b.dir))}
        left == UNION {Ancestors(b) : b \in bad}
    IN  [q \in (DOMAIN f \ gone) \cup left |-> IF q \in DOMAIN f THEN f[q] ELSE <<>>]

\* GarbageCollector.cleanOrphanedFiles: filepath.Walk visits a directory
\* before the directories in it, and the callback removes a directory that is
\* empty when it is visited; a directory that becomes empty by the removal
\* of its last child has been visited already and stays.  Files stay.
cleanOrphanedFiles(f, id) ==
    LET empty == {d \in DOMAIN f : d.id = id /\ IsEmptyDir(f, d)}
        above == {Dir(id, SubSeq(d.dir, 1, Len(d.dir) - 1)) : d \in {e \in empty : Len(e.dir) > 1}}
    IN  [q \in (DOMAIN f \ empty) \cup above |-> IF q \in DOMAIN f THEN f[q] ELSE <<>>]


\* ------------------------------------------------------------------- wire
\* Message payloads (MessageStoreFile, MessageGetFile, MessagePeerExchange);
\* "none" is a Message whose Payload is nil (what gob leaves after a decoding
\* error)
NoMsg == [type |-> "none", ID |-> "", Key |-> NoKey, Size |-> 0, Peers |-> <<>>]
MessageStoreFile(id, key, size) ==
    [type |-> "store", ID |-> id, Key |-> key, Size |-> size, Peers |-> <<>>]
MessageGetFile(id, key) ==
    [type |-> "get", ID |-> id, Key |-> key, Size |-> 0, Peers |-> <<>>]
MessagePeerExchange(list) ==
    [type |-> "pex", ID |-> "", Key |-> NoKey, Size |-> 0, Peers |-> list]

\* the payload types registered with gob (init of server.go)
GobRegistered == {"store", "get"}

\* tokens on a connection
Byte(x)     == [t |-> "byte", v |-> x, m |-> NoMsg]
SizeTok(n)  == [t |-> "size", v |-> n, m |-> NoMsg]  \* binary.Write(LittleEndian, int64)
GobEncode(msg) == [t |-> "gob", v |-> 0, m |-> msg]  \* gob.NewEncoder(buf).Encode(msg)
NilPayload  == [t |-> "nil", v |-> 0, m |-> NoMsg]   \* RPC{} : no payload
JunkPayload == [t |-> "junk", v |-> 0, m |-> NoMsg]  \* bytes that are no gob message

\* gob.NewDecoder(...).Decode(&msg): a decoding error (bytes that are no gob
\* message, a payload type that is not registered) leaves msg.Payload nil
GobDecode(payload) ==
    IF payload.t = "gob" /\ payload.m.type \in GobRegistered THEN payload.m ELSE NoMsg

Bytes(data) == [i \in 1..Len(data) |-> Byte(data[i])]

\* the byte a stream reader sees for a token (a size prefix or an encoded
\* message read as raw bytes is foreign data)
AsByte(tok) == IF tok.t = "byte" THEN tok.v ELSE tok.v % 2
AsBytes(toks) == [i \in 1..Len(toks) |-> AsByte(toks[i])]

\* --------------------------------------------------------------- variables
VARIABLES
    store,     \* store[n]: the files under n's storage root, path -> content
    peers,     \* peers[n]: keys of FileServer.Peers (remote addresses)
    link,      \* link[a][b]: "none", "up" or "down"; symmetric
    wire,      \* wire[s][r]: tokens written by s that r has not read yet
    rl,        \* rl[n][p]: where handleConn of n's connection to p stands
    wg,        \* wg[n][p]: counter of TCPPeer.wg
    rpcch,     \* rpcch[n]: the transport's inbound queue
    disp,      \* disp[n]: what FileServer.loop is doing
    cl,        \* cl[n]: the client call (Store/Get/Delete) in progress; for a
               \* Get, after and asked record the nodes whose Store of the name
               \* had returned at the call and the peers the request went to;
               \* for a Store, asked records the peers the notice went to
    done,      \* done[n]: completed client calls, oldest first
    panicked,  \* nodes whose process died in a panic
    budget,    \* client calls and connection failures the run may still start
    cfg,       \* configuration of the run: user keys, payloads, bootstrap nodes,
               \* and the nodes that serve client calls
    known,     \* known[n]: keys of PeerExchangeService.knownPeers
    discovered, \* discovered[n]: keys of DiscoveryService.discoveredPeers
    dials,     \* dials[n][addr]: the call of TCPTransport.Dial(addr) on n
    reg,       \* reg[n]: the goroutines of n that are inside an access to
               \* FileServer.Peers, and the holder of PeerLock
    life,      \* life[n]: quitch, FileServer.loop, the listener and the accept
               \* loop of n
    now,       \* time.Now(), in minutes since the nodes were started
    info,      \* info[n].seen: values of DiscoveryService.discoveredPeers,
               \* info[n].peer: values of PeerExchangeService.knownPeers
    launched,  \* launched[n]: the dials that discovery and peer exchange have
               \* launched on n, oldest first, with the time of the launch
    heard      \* heard[n]: the PeerGossip messages handed to the peer exchange
               \* service of n, oldest first, with the time of the call

vars == <<store, peers, link, wire, rl, wg, rpcch, disp, cl, done, panicked, budget, cfg,
          known, discovered, dials, reg, life, now, info, launched, heard>>

\* the state of peer exchange, mDNS discovery and the dialer, and the
\* accesses to the registry in progress
finding == <<known, discovered, dials, reg, life, now, info, launched, heard>>

\* the clock, the time stamps of the two caches and the record of launches
timing == <<now, info, launched, heard>>

Idle     == [pc |-> "idle", name |-> <<>>, data |-> <<>>, todo |-> {}, after |-> {},
             asked |-> {}]
DispIdle == [st |-> "idle", from |-> "", id |-> "", key |-> NoKey, rem |-> 0]

\* FileServerOpts.BootstrapNodes: every other node is started with n1 as seed
Seeds == [n \in Nodes |-> IF n = "n1" THEN {} ELSE {"n1"}]

\* a node started without bootstrap nodes
NoSeeds == [n \in Nodes |-> {}]

\* The goroutines of a node that touch the registry: handleConn of two
\* connections, the caller of Store and Get, FileServer.loop, and
\* periodicExchange of the peer exchange service
Goroutines == {"handleConn1", "handleConn2", "client", "loop", "pex"}

KindOf(g) == IF g \in {"handleConn1", "handleConn2"} THEN "handleConn" ELSE g

\* The places where the server reads or writes FileServer.Peers: the kind of
\* goroutine that runs the place, whether the place takes PeerLock around
\* the access, and whether it writes the map
RegSites ==
    { [site |-> "OnPeer",                 by |-> "handleConn", lock |-> TRUE,  write |-> TRUE],
      [site |-> "broadcast",              by |-> "client",     lock |-> FALSE, write |-> FALSE],
      [site |-> "Store",                  by |-> "client",     lock |-> FALSE, write |-> FALSE],
      [site |-> "Get",                    by |-> "client",     lock |-> FALSE, write |-> FALSE],
      [site |-> "handleMessageGetFile",   by |-> "loop",       lock |-> FALSE, write |-> FALSE],
      [site |-> "handleMessageStoreFile", by |-> "loop",       lock |-> FALSE, write |-> FALSE],
      [site |-> "GetKnownPeers",          by |-> "pex",        lock |-> TRUE,  write |-> FALSE],
      [site |-> "broadcast",              by |-> "pex",        lock |-> FALSE, write |-> FALSE] }

\* a place outside every access
Outside == [site |-> "", by |-> "", lock |-> FALSE, write |-> FALSE]

\* no goroutine inside an access, PeerLock free
NoAccess == [at |-> [g \in Goroutines |-> Outside], holder |-> ""]

\* a started node: quitch is open, FileServer.loop runs, the listener is
\* open and the accept loop runs
Running == [quitch |-> "open", loop |-> "running", listener |-> "open", accept |-> "running"]

\* make(map[string]time.Time) and make(map[string]*PeerInfo): empty caches
NoInfo == [seen |-> [a \in {} |-> 0], peer |-> [a \in {} |-> 0]]

\* NewFileServer / NewStore / NewTCPTransport / NewPeerExchangeService: empty
\* registry, empty storage root, empty queue, no connection, nothing known
InitState ==
    /\ store    = [n \in Nodes |-> EmptyStore]
    /\ peers    = [n \in Nodes |-> {}]
    /\ link     = [a \in Nodes |-> [b \in Nodes |-> "none"]]
    /\ wire     = [a \in Nodes |-> [b \in Nodes |-> <<>>]]
    /\ rl       = [a \in Nodes |-> [b \in Nodes |-> "none"]]
    /\ wg       = [a \in Nodes |-> [b \in Nodes |-> 0]]
    /\ rpcch    = [n \in Nodes |-> <<>>]
    /\ disp     = [n \in Nodes |-> DispIdle]
    /\ cl       = [n \in Nodes |-> Idle]
    /\ done     = [n \in Nodes |-> <<>>]
    /\ panicked = {}
    /\ known      = [n \in Nodes |-> {}]
    /\ discovered = [n \in Nodes |-> {}]
    /\ dials      = [n \in Nodes |-> {}]
    /\ reg        = [n \in Nodes |-> NoAccess]
    /\ life       = [n \in Nodes |-> Running]
    /\ now        = 0
    /\ info       = [n \in Nodes |-> NoInfo]
    /\ launched   = [n \in Nodes |-> <<>>]
    /\ heard      = [n \in Nodes |-> <<>>]

InitNet(seeds, clients, ops, breaks, names, blobs) ==
    /\ InitState
    /\ budget   = [ops |-> ops, breaks |-> breaks]
    /\ cfg      = [names |-> names, blobs |-> blobs, seeds |-> seeds, clients |-> clients,
                   lock |-> TRUE]

\* Three nodes, n2 and n3 bootstrapped with n1; n1 and n2 serve client calls
\* on one user key; no connection fails
Init == InitNet(Seeds, {"n1", "n2"}, MaxOps, 0, {<<0>>}, {<<1>>})

\* The same network with connection failures; n1 serves the client calls
InitFail == InitNet(Seeds, {"n1"}, MaxFailOps, MaxBreaks, {<<0>>, <<0, 1>>}, SeqsUpTo(1))

\* A single node without peers, every user key and payload
InitLocal == InitNet(NoSeeds, {"n1"}, MaxLocalOps, 0, Names, Blobs)

Alive(n) == n \notin panicked

\* peers of n whose connection accepts writes / fails them
UpPeers(n, P)   == {p \in P : link[n][p] = "up"}
DownPeers(n, P) == {p \in P : link[n][p] # "up"}

\* Appending toks(p) to the connection towards every p in S
SendAll(w, n, S, toks) ==
    [a \in Nodes |-> [b \in Nodes |->
        IF a = n /\ b \in S THEN w[a][b] \o toks ELSE w[a][b]]]

\* Sets of peers a sequential write over the peers of P can have reached: all
\* of them when no write fails, else the ones iterated before the first
\* failing peer (map iteration order is arbitrary).
Reached(n, P) ==
    IF DownPeers(n, P) = {} THEN {P} ELSE SUBSET UpPeers(n, P)

\* nodes on which a Store of name has returned without error
Stored(name) ==
    {m \in Nodes : \E i \in DOMAIN done[m] :
        done[m][i].op = "store" /\ done[m][i].name = name /\ done[m][i].ok}

\* The record of a completed client call: what it returned and, for a Get,
\* the nodes whose Store of the name had returned when the Get was called
Result(op, name, data, ok, err, after) ==
    [op |-> op, name |-> name, data |-> data, ok |-> ok, err |-> err, after |-> after]

Finish(n, r) ==
    /\ done' = [done EXCEPT ![n] = Append(@, r)]
    /\ cl'   = [cl EXCEPT ![n] = Idle]

\* Reads of one connection are serialized by its read lock, which the read
\* loop holds while it is blocked in Decode.  Another goroutine (the StoreFile
\* handler, Get) reads from the connection while the loop waits on the
\* gate or has exited, or when the connection has ended and every read
\* returns at once.  This is the order in which the readers arrive when the
\* loop is back in Decode before the other goroutine calls Read (cfg.lock);
\* nothing in the program enforces that order, and without it whichever
\* reader arrives first takes the next bytes.
CanRead(n, p) ==
    \/ ~cfg.lock
    \/ rl[n][p] \in {"wait", "exited"}
    \/ wire[p][n] = <<>> /\ link[n][p] # "up"

\* TCPPeer.CloseStream: wg.Done(); a negative counter panics
CloseStream(n, p) ==
    /\ wg' = [wg EXCEPT ![n][p] = @ - 1]
    /\ IF wg[n][p] <= 0
       THEN /\ panicked' = panicked \cup {n}
            /\ link' = [a \in Nodes |-> [b \in Nodes |->
                          IF (a = n \/ b = n) /\ link[a][b] = "up" THEN "down" ELSE link[a][b]]]
       ELSE UNCHANGED <<panicked, link>>


\* ------------------------------------------------------------ client calls
\* FileServer.Store, up to the sleep: the local write, then the broadcast of
\* the StoreFile notice.  broadcast returns at the first peer whose Send
\* fails, and Store returns that error.
StoreBegin(n, name, data) ==
    /\ Alive(n) /\ cl[n].pc = "idle" /\ n \in cfg.clients /\ budget.ops > 0
    /\ budget' = [budget EXCEPT !.ops = @ - 1]
    /\ store' = [store EXCEPT ![n] = Write(@, n, Str(name), data)]
    /\ LET msg == MessageStoreFile(n, HashKey(Str(name)), Len(data) + SizeOverhead)
       IN  \E S \in Reached(n, peers[n]) :
             /\ wire' = SendAll(wire, n, S, <<Byte(IncomingMessage), GobEncode(msg)>>)
             /\ IF DownPeers(n, peers[n]) = {}
                THEN /\ cl' = [cl EXCEPT ![n] = [pc |-> "storeSleep", name |-> name,
                                                 data |-> data, todo |-> {}, after |-> {},
                                                 asked |-> S]]
                     /\ UNCHANGED done
                ELSE Finish(n, Result("store", name, data, FALSE, "io", {}))
    /\ UNCHANGED <<peers, link, rl, wg, rpcch, disp, panicked, cfg, finding>>

\* FileServer.Store, after the sleep: 0x02 and the encrypted copy through an
\* io.MultiWriter over the peers.  MultiWriter.Write stops at the first writer
\* that fails; the error of the 0x02 write is dropped, the error of the IV
\* write makes CopyEncrypt return before any ciphertext is written.
StoreStream(n) ==
    /\ Alive(n) /\ cl[n].pc = "storeSleep"
    /\ LET failed == DownPeers(n, peers[n]) # {}
       IN  /\ \E iv \in IVs, S \in Reached(n, peers[n]) :
                LET body == IF failed THEN iv ELSE CopyEncrypt(EncKey(n), iv, cl[n].data)
                IN  wire' = SendAll(wire, n, S, <<Byte(IncomingStream)>> \o Bytes(body))
           /\ Finish(n, Result("store", cl[n].name, cl[n].data, ~failed,
                               IF failed THEN "io" ELSE "none", {}))
    /\ UNCHANGED <<store, peers, link, rl, wg, rpcch, disp, panicked, budget, cfg, finding>>

\* FileServer.Get, up to the sleep: a local hit is served from disk, a miss
\* broadcasts a GetFile request.
GetBegin(n, name) ==
    /\ Alive(n) /\ cl[n].pc = "idle" /\ n \in cfg.clients /\ budget.ops > 0
    /\ budget' = [budget EXCEPT !.ops = @ - 1]
    /\ IF Has(store[n], n, Str(name))
       THEN /\ Finish(n, Result("get", name, Read(store[n], n, Str(name)), TRUE, "none",
                                 Stored(name)))
            /\ UNCHANGED wire
       ELSE \E S \in Reached(n, peers[n]) :
              /\ wire' = SendAll(wire, n, S,
                     <<Byte(IncomingMessage), GobEncode(MessageGetFile(n, HashKey(Str(name))))>>)
              /\ IF DownPeers(n, peers[n]) = {}
                 THEN /\ cl' = [cl EXCEPT ![n] = [pc |-> "getSleep", name |-> name,
                                                  data |-> <<>>, todo |-> {},
                                                  after |-> Stored(name), asked |-> S]]
                      /\ UNCHANGED done
                 ELSE Finish(n, Result("get", name, <<>>, FALSE, "io", Stored(name)))
    /\ UNCHANGED <<store, peers, link, rl, wg, rpcch, disp, panicked, cfg, finding>>

\* FileServer.Get: the sleep is over, the loop over s.Peers starts
GetWake(n) ==
    /\ Alive(n) /\ cl[n].pc = "getSleep"
    /\ cl' = [cl EXCEPT ![n].pc = "getLoop", ![n].todo = peers[n]]
    /\ UNCHANGED <<store, peers, link, wire, rl, wg, rpcch, disp, done, panicked, budget, cfg, finding>>

\* FileServer.Get: one iteration of the loop over the peers.  binary.Read
\* takes the size prefix (its error is dropped, the size is then 0);
\* WriteDecrypt creates the file and copies the decrypted stream into it; an
\* error of WriteDecrypt (no byte of the IV could be read) makes Get return
\* without CloseStream.
GetPeer(n, p) ==
    /\ Alive(n) /\ cl[n].pc = "getLoop" /\ p \in cl[n].todo
    /\ CanRead(n, p)
    /\ LET w        == wire[p][n]
           fileSize == IF w = <<>> THEN 0 ELSE Head(w).v
           rest     == IF w = <<>> THEN <<>> ELSE Tail(w)
           k        == Min(fileSize, Len(rest))
           src      == AsBytes(SubSeq(rest, 1, k))
       IN  /\ w # <<>> \/ link[n][p] # "up"
           /\ Len(rest) >= fileSize \/ link[n][p] # "up"
           /\ wire' = [wire EXCEPT ![p][n] = SubSeq(rest, k + 1, Len(rest))]
           /\ IF k = 0
              THEN /\ store' = [store EXCEPT ![n] = writeStream(@, n, Str(cl[n].name), <<>>)]
                   /\ Finish(n, Result("get", cl[n].name, <<>>, FALSE, "io", cl[n].after))
                   /\ UNCHANGED <<wg, panicked, link>>
              ELSE /\ store' = [store EXCEPT ![n] =
                                   WriteDecrypt(@, EncKey(n), n, Str(cl[n].name), src)]
                   /\ cl' = [cl EXCEPT ![n].todo = @ \ {p}]
                   /\ CloseStream(n, p)
                   /\ UNCHANGED done
    /\ UNCHANGED <<peers, rl, rpcch, disp, budget, cfg, finding>>

\* FileServer.Get: after the loop, the local copy is opened and returned
GetFinish(n) ==
    /\ Alive(n) /\ cl[n].pc = "getLoop" /\ cl[n].todo = {}
    /\ IF Has(store[n], n, Str(cl[n].name))
       THEN Finish(n, Result("get", cl[n].name, Read(store[n], n, Str(cl[n].name)), TRUE, "none",
                             cl[n].after))
       ELSE Finish(n, Result("get", cl[n].name, <<>>, FALSE, "notfound", cl[n].after))
    /\ UNCHANGED <<store, peers, link, wire, rl, wg, rpcch, disp, panicked, budget, cfg, finding>>

\* FileServer.Delete
Delete(n, name) ==
    /\ Alive(n) /\ cl[n].pc = "idle" /\ n \in cfg.clients /\ budget.ops > 0
    /\ budget' = [budget EXCEPT !.ops = @ - 1]
    /\ IF Has(store[n], n, Str(name))
       THEN /\ store' = [store EXCEPT ![n] = StoreDelete(@, n, Str(name))]
            /\ Finish(n, Result("delete", name, <<>>, TRUE, "none", {}))
       ELSE /\ Finish(n, Result("delete", name, <<>>, FALSE, "notfound", {}))
            /\ UNCHANGED store
    /\ UNCHANGED <<peers, link, wire, rl, wg, rpcch, disp, panicked, cfg, finding>>


\* --------------------------------------------------------------- transport
\* TCPTransport.Dial / startAcceptLoop: a connection between a and b; each
\* side runs handleConn in a goroutine of its own
Dial(a, b) ==
    /\ b \in cfg.seeds[a] /\ Alive(a) /\ Alive(b) /\ link[a][b] = "none"
    /\ life[b].listener = "open"
    /\ link' = [link EXCEPT ![a][b] = "up", ![b][a] = "up"]
    /\ rl'   = [rl EXCEPT ![a][b] = "new", ![b][a] = "new"]
    /\ UNCHANGED <<store, peers, wire, wg, rpcch, disp, cl, done, panicked, budget, cfg, finding>>

\* FileServer.OnPeer, called by handleConn after the (no-op) handshake: the
\* peer enters the registry and the read loop starts
OnPeer(n, p) ==
    /\ Alive(n) /\ rl[n][p] = "new"
    /\ peers' = [peers EXCEPT ![n] = @ \cup {p}]
    /\ rl'    = [rl EXCEPT ![n][p] = "decode"]
    /\ UNCHANGED <<store, link, wire, wg, rpcch, disp, cl, done, panicked, budget, cfg, finding>>

Room(n) == Len(rpcch[n]) < MaxQueue

RPC(from, payload) == [From |-> from, Payload |-> payload]

\* a Read of the body that returns no byte of it
NoBody(w) == NilPayload

\* What one Read of up to 1028 bytes returns for the message body, and what it
\* leaves on the connection: the encoded message when one is next, else all
\* the bytes that have arrived
BodyPayload(w) == IF Head(w).t = "gob" THEN Head(w) ELSE JunkPayload
BodyRest(w)    == IF Head(w).t = "gob" THEN Tail(w) ELSE <<>>

\* DefaultDecoder.Decode and the rest of the loop body of handleConn.  A read
\* error on the first byte returns nil, so the loop publishes an empty RPC and
\* goes on; 0x02 makes the loop wait on the gate; any other byte announces a
\* message body, which is read and published on rpcch.
Decode(n, p) ==
    /\ Alive(n) /\ rl[n][p] = "decode"
    /\ LET w == wire[p][n]
       IN  IF w = <<>>
           THEN /\ link[n][p] # "up" /\ Room(n)
                /\ rpcch' = [rpcch EXCEPT ![n] = Append(@, RPC(p, NilPayload))]
                /\ rl' = [rl EXCEPT ![n][p] = "decode"]
                /\ UNCHANGED <<wire, wg>>
           ELSE IF Head(w) = Byte(IncomingStream)
           THEN /\ wire' = [wire EXCEPT ![p][n] = Tail(w)]
                /\ wg' = [wg EXCEPT ![n][p] = @ + 1]
                /\ rl' = [rl EXCEPT ![n][p] = "wait"]
                /\ UNCHANGED rpcch
           ELSE IF Tail(w) = <<>>
           THEN /\ wire' = [wire EXCEPT ![p][n] = <<>>]
                /\ rl' = [rl EXCEPT ![n][p] = "body"]
                /\ UNCHANGED <<rpcch, wg>>
           ELSE /\ Room(n)
                /\ rpcch' = [rpcch EXCEPT ![n] = Append(@, RPC(p, BodyPayload(Tail(w))))]
                /\ wire' = [wire EXCEPT ![p][n] = BodyRest(Tail(w))]
                /\ rl' = [rl EXCEPT ![n][p] = "decode"]
                /\ UNCHANGED wg
    /\ UNCHANGED <<store, peers, link, disp, cl, done, panicked, budget, cfg, finding>>

\* DefaultDecoder.Decode, blocked in the Read of the body.  A read error ends
\* handleConn, which closes the connection.
DecodeBody(n, p) ==
    /\ Alive(n) /\ rl[n][p] = "body"
    /\ LET w == wire[p][n]
       IN  IF w = <<>>
           THEN /\ link[n][p] # "up"
                /\ rl' = [rl EXCEPT ![n][p] = "exited"]
                /\ UNCHANGED <<wire, rpcch>>
           ELSE /\ Room(n)
                /\ rpcch' = [rpcch EXCEPT ![n] = Append(@, RPC(p, BodyPayload(w)))]
                /\ wire' = [wire EXCEPT ![p][n] = BodyRest(w)]
                /\ rl' = [rl EXCEPT ![n][p] = "decode"]
    /\ UNCHANGED <<store, peers, link, wg, disp, cl, done, panicked, budget, cfg, finding>>

\* handleConn: peer.wg.Wait() returns once the counter is back to zero
Resume(n, p) ==
    /\ Alive(n) /\ rl[n][p] = "wait" /\ wg[n][p] = 0
    /\ rl' = [rl EXCEPT ![n][p] = "decode"]
    /\ UNCHANGED <<store, peers, link, wire, wg, rpcch, disp, cl, done, panicked, budget, cfg, finding>>

Prefixes(w) == {SubSeq(w, 1, i) : i \in 0..Len(w)}

\* The connection between a and b fails (reset, peer process gone): the bytes
\* not yet delivered may be lost from some point on
Break(a, b) ==
    /\ a # b /\ link[a][b] = "up" /\ budget.breaks > 0
    /\ budget' = [budget EXCEPT !.breaks = @ - 1]
    /\ link' = [link EXCEPT ![a][b] = "down", ![b][a] = "down"]
    /\ \E x \in Prefixes(wire[a][b]), y \in Prefixes(wire[b][a]) :
          wire' = [wire EXCEPT ![a][b] = x, ![b][a] = y]
    /\ UNCHANGED <<store, peers, rl, wg, rpcch, disp, cl, done, panicked, cfg, finding>>

\* ---------------------------------------------- dialer, discovery, exchange
\* Hosts and ports: n1 and n2 listen on port 3000 of their hosts, n3 listens
\* on port 4000 of the host of n1.  A node is named by its listen address.
HostOf(n)     == IF n = "n2" THEN "h2" ELSE "h1"
ListenPort(n) == IF n = "n3" THEN 4000 ELSE 3000
AddrOf(n)     == [ip |-> HostOf(n), port |-> ListenPort(n)]

\* the nodes that accept connections at addr
Listener(addr) == {m \in Nodes : AddrOf(m) = addr}

\* a node that finds no local IP
noLocalIPs(n) == {}

\* DiscoveryService.getLocalIPs
getLocalIPs(n) == {HostOf(n)}

\* DiscoveryService.startAdvertising: the service entry of node m carries the
\* local IPs and the port of the discovery service
Advertisement(m) == [ip |-> HostOf(m), port |-> MdnsPort]

\* an entry that is still answered for a host no node runs on
StaleEntry == [ip |-> "h3", port |-> MdnsPort]

\* the entries an mDNS query can return
Entries == {Advertisement(m) : m \in cfg.mdns} \cup {StaleEntry}

\* a call of TCPTransport.Dial(addr) before its first attempt; src tells who
\* made it, spawned counts the handleConn goroutines it has started, err is
\* the address and the attempt count of the error it returned
NoErr == [addr |-> "", attempts |-> 0]

\* a Dial whose attempts are counted from zero
EagerDial(addr, src) ==
    [addr |-> addr, src |-> src, st |-> "try", attempt |-> 0, spawned |-> 0, err |-> NoErr]

NewDial(addr, src) ==
    [addr |-> addr, src |-> src, st |-> "try", attempt |-> 1, spawned |-> 0, err |-> NoErr]

\* FileServer.bootstrapNetwork: one goroutine per bootstrap node calls Dial
bootstrapNetwork(n) ==
    /\ Alive(n) /\ cfg.seeds[n] # {} /\ \A d \in dials[n] : d.src # "seed"
    /\ dials' = [dials EXCEPT ![n] = @ \cup {NewDial(AddrOf(s), "seed") : s \in cfg.seeds[n]}]
    /\ UNCHANGED <<store, peers, link, wire, rl, wg, rpcch, disp, cl, done, panicked, budget,
                   cfg, known, discovered, reg, life, timing>>

\* TCPTransport.Dial, one pass of the retry loop: net.DialTimeout succeeds
\* only if a node listens at the address (it may also time out); on success
\* handleConn is started and Dial returns nil; on failure Dial sleeps when
\* attempts are left and returns the error otherwise.  A second connection
\* between two nodes is folded into the first.
DialAttempt(n, d) ==
    /\ Alive(n) /\ d \in dials[n] /\ d.st = "try"
    /\ \/ \E m \in Listener(d.addr) :
             /\ Alive(m) /\ life[m].listener = "open"
             /\ dials' = [dials EXCEPT ![n] =
                    (@ \ {d}) \cup {[d EXCEPT !.st = "ok", !.spawned = @ + 1]}]
             /\ IF link[n][m] = "none"
                THEN /\ link' = [link EXCEPT ![n][m] = "up", ![m][n] = "up"]
                     /\ rl'   = [rl EXCEPT ![n][m] = "new", ![m][n] = "new"]
                ELSE UNCHANGED <<link, rl>>
       \/ /\ dials' = [dials EXCEPT ![n] = (@ \ {d}) \cup
                    {IF d.attempt < MaxRetries
                     THEN [d EXCEPT !.st = "sleep"]
                     ELSE [d EXCEPT !.st = "err",
                                    !.err = [addr |-> d.addr, attempts |-> MaxRetries]]}]
          /\ UNCHANGED <<link, rl>>
    /\ UNCHANGED <<store, peers, wire, wg, rpcch, disp, cl, done, panicked, budget, cfg,
                   known, discovered, reg, life, timing>>

\* TCPTransport.Dial: time.Sleep(retryDelay) is over, the next attempt starts
DialWake(n, d) ==
    /\ Alive(n) /\ d \in dials[n] /\ d.st = "sleep"
    /\ dials' = [dials EXCEPT ![n] = (@ \ {d}) \cup
                    {[d EXCEPT !.st = "try", !.attempt = @ + 1]}]
    /\ UNCHANGED <<store, peers, link, wire, rl, wg, rpcch, disp, cl, done, panicked, budget,
                   cfg, known, discovered, reg, life, timing>>

\* the clock moves in steps of five minutes
ClockStep == SuppressWindow

\* time passes, up to the end of the run
Tick ==
    /\ now + ClockStep <= cfg.until
    /\ now' = now + ClockStep
    /\ UNCHANGED <<store, peers, link, wire, rl, wg, rpcch, disp, cl, done, panicked, budget,
                   cfg, known, discovered, dials, reg, life, info, launched, heard>>

\* m[k] = v on a Go map
MapPut(m, k, v) == [x \in DOMAIN m \cup {k} |-> IF x = k THEN v ELSE m[x]]

\* delete(m, k) for every key k in S
MapDelete(m, S) == [x \in DOMAIN m \ S |-> m[x]]

\* a dial that discovery or peer exchange has launched
Launch(addr, src, at) == [addr |-> addr, src |-> src, at |-> at]

\* a handler that leaves out the look-up in discoveredPeers
RediscoverPeer(n, entry) ==
    /\ Alive(n) /\ n \in cfg.mdns
    /\ IF entry.port = MdnsPort /\ entry.ip \in getLocalIPs(n)
       THEN UNCHANGED <<discovered, dials, info, launched>>
       ELSE /\ discovered' = [discovered EXCEPT ![n] = @ \cup {entry}]
            /\ info' = [info EXCEPT ![n].seen = MapPut(@, entry, now)]
            /\ dials' = [dials EXCEPT ![n] = @ \cup {NewDial(entry, "mdns")}]
            /\ launched' = [launched EXCEPT ![n] = Append(@, Launch(entry, "mdns", now))]
    /\ UNCHANGED <<store, peers, link, wire, rl, wg, rpcch, disp, cl, done, panicked, budget,
                   cfg, known, reg, life, now, heard>>

\* DiscoveryService.handleDiscoveredPeer: an entry with the service's port and
\* a local IP is the node's own; an address recorded less than five minutes
\* ago is dropped; any other address is recorded with the current time and is
\* dialed by the callback of EnableLocalDiscovery in a goroutine of its own
handleDiscoveredPeer(n, entry) ==
    /\ Alive(n) /\ n \in cfg.mdns
    /\ IF \/ entry.port = MdnsPort /\ entry.ip \in getLocalIPs(n)
          \/ entry \in discovered[n] /\ now - info[n].seen[entry] < SuppressWindow
       THEN UNCHANGED <<discovered, dials, info, launched>>
       ELSE /\ discovered' = [discovered EXCEPT ![n] = @ \cup {entry}]
            /\ info' = [info EXCEPT ![n].seen = MapPut(@, entry, now)]
            /\ dials' = [dials EXCEPT ![n] = @ \cup {NewDial(entry, "mdns")}]
            /\ launched' = [launched EXCEPT ![n] = Append(@, Launch(entry, "mdns", now))]
    /\ UNCHANGED <<store, peers, link, wire, rl, wg, rpcch, disp, cl, done, panicked, budget,
                   cfg, known, reg, life, now, heard>>

\* DiscoveryService.CleanupOldPeers: the entries recorded more than ten
\* minutes ago leave the cache
CleanupOldPeers(n) ==
    /\ Alive(n) /\ n \in cfg.mdns
    /\ LET old == {a \in discovered[n] : info[n].seen[a] < now - DiscoveryStale}
       IN  /\ discovered' = [discovered EXCEPT ![n] = @ \ old]
           /\ info' = [info EXCEPT ![n].seen = MapDelete(@, old)]
    /\ UNCHANGED <<store, peers, link, wire, rl, wg, rpcch, disp, cl, done, panicked, budget,
                   cfg, known, dials, reg, life, now, launched, heard>>

\* PeerInfo
PeerInfo(address, lastSeen, source) ==
    [Address |-> address, LastSeen |-> lastSeen, Source |-> source]

\* the keys of FileServer.Peers as addresses (a node is named by its address)
Connected(n) == {AddrOf(p) : p \in peers[n]}

\* PeerExchangeService.AddKnownPeer on the map kp at time t: nothing when the
\* service is not enabled; the record of a known address gets a new LastSeen;
\* a new address gets a record
AddKnownPeer(enabled, kp, address, source, t) ==
    IF ~enabled THEN kp
    ELSE IF address \in DOMAIN kp
    THEN [kp EXCEPT ![address].LastSeen = t]
    ELSE MapPut(kp, address, PeerInfo(address, t, source))

\* PeerExchangeService.GetKnownPeers: the known peers that are not connected
GetKnownPeers(n) == known[n] \ Connected(n)

\* knownPeers[:20]
Truncate(list) == SubSeq(list, 1, Min(Len(list), PexLimit))

\* The body of PeerExchangeService.exchangePeerLists: nothing is sent when no
\* known peer is left after the connected ones are taken out; else the list
\* is cut to twenty entries and broadcast, and broadcast returns the encoding
\* error of a payload type that is not registered before it writes to any
\* peer
SendPeerList(n) ==
    IF GetKnownPeers(n) # {} /\ "pex" \in GobRegistered
    THEN \E S \in Reached(n, peers[n]) :
           wire' = SendAll(wire, n, S,
               <<Byte(IncomingMessage),
                 GobEncode(MessagePeerExchange(Truncate(
                     SetToSeq({info[n].peer[a] : a \in GetKnownPeers(n)}))))>>)
    ELSE UNCHANGED wire

\* PeerExchangeService.exchangePeerLists, run by periodicExchange on every
\* tick
exchangePeerLists(n) ==
    /\ Alive(n) /\ n \in cfg.pex
    /\ SendPeerList(n)
    /\ UNCHANGED <<store, peers, link, rl, wg, rpcch, disp, cl, done, panicked, budget, cfg,
                   finding>>

\* PeerExchangeService.periodicExchange: the ticker fires and
\* exchangePeerLists runs, in a run that counts the firings
periodicExchange(n) ==
    /\ Alive(n) /\ n \in cfg.pex
    /\ budget.exchanges > 0
    /\ budget' = [budget EXCEPT !.exchanges = @ - 1]
    /\ SendPeerList(n)
    /\ UNCHANGED <<store, peers, link, rl, wg, rpcch, disp, cl, done, panicked, cfg,
                   finding>>

\* the addresses a peer exchange message names
Mentioned(msg) == {msg.Peers[i].Address : i \in 1..Len(msg.Peers)}

\* a handler that leaves out the look-up in knownPeers
RECURSIVE RedialEntries(_, _, _, _)
RedialEntries(n, list, t, st) ==
    IF list = <<>> THEN st
    ELSE LET a == Head(list).Address
         IN  IF a = AddrOf(n) \/ a \in Connected(n)
             THEN RedialEntries(n, Tail(list), t, st)
             ELSE RedialEntries(n, Tail(list), t,
                     [kp  |-> AddKnownPeer(TRUE, st.kp, a, "pex", t),
                      out |-> Append(st.out, a)])

\* The loop of PeerExchangeService.HandlePeerExchange over the entries of a
\* message, at time t on node n: st.kp is knownPeers, st.out the addresses a
\* dial was launched for.  An entry with the node's own address, a connected
\* address or a known address is skipped.
RECURSIVE HandleEntries(_, _, _, _)
HandleEntries(n, list, t, st) ==
    IF list = <<>> THEN st
    ELSE LET a == Head(list).Address
         IN  IF a = AddrOf(n) \/ a \in Connected(n) \/ a \in DOMAIN st.kp
             THEN HandleEntries(n, Tail(list), t, st)
             ELSE HandleEntries(n, Tail(list), t,
                     [kp  |-> AddKnownPeer(TRUE, st.kp, a, "pex", t),
                      out |-> Append(st.out, a)])

\* PeerExchangeService.HandlePeerExchange: nothing when the service is not
\* enabled; else every new address is added as known with source "pex" and
\* Dial is called for it in a goroutine of its own
HandlePeerExchange(n, from, msg) ==
    IF n \notin cfg.pex
    THEN UNCHANGED <<known, info, dials, launched>>
    ELSE LET st == HandleEntries(n, msg.Peers, now, [kp |-> info[n].peer, out |-> <<>>])
         IN  /\ known' = [known EXCEPT ![n] = DOMAIN st.kp]
             /\ info' = [info EXCEPT ![n].peer = st.kp]
             /\ dials' = [dials EXCEPT ![n] =
                    @ \cup {NewDial(st.out[i], "pex") : i \in 1..Len(st.out)}]
             /\ launched' = [launched EXCEPT ![n] =
                    @ \o [i \in 1..Len(st.out) |-> Launch(st.out[i], "pex", now)]]

\* FileServer.handleMessagePeerExchange, called with a message from a peer
handleMessagePeerExchange(n, from, msg) ==
    /\ Alive(n) /\ from \in peers[n]
    /\ budget.gossip > 0
    /\ budget' = [budget EXCEPT !.gossip = @ - 1]
    /\ heard' = [heard EXCEPT ![n] = Append(@, [from |-> from, msg |-> msg, at |-> now])]
    /\ HandlePeerExchange(n, from, msg)
    /\ UNCHANGED <<store, peers, link, wire, rl, wg, rpcch, disp, cl, done, panicked, cfg,
                   discovered, reg, life, now>>

\* PeerExchangeService.cleanupOldPeers, run by periodicCleanup every ten
\* minutes: the records last seen more than thirty minutes ago are deleted
cleanupOldPeers(n) ==
    /\ Alive(n) /\ n \in cfg.pex
    /\ now > 0 /\ now % CleanupPeriod = 0
    /\ LET old == {a \in known[n] : info[n].peer[a].LastSeen < now - PexStale}
       IN  /\ known' = [known EXCEPT ![n] = @ \ old]
           /\ info' = [info EXCEPT ![n].peer = MapDelete(@, old)]
    /\ UNCHANGED <<store, peers, link, wire, rl, wg, rpcch, disp, cl, done, panicked, budget,
                   cfg, discovered, dials, reg, life, now, launched, heard>>

\* The process at the other end of a connection writes a peer exchange
\* message: the message marker and the gob encoding of the Message
PeerGossipFrame(p, n, msg) ==
    /\ Alive(n) /\ link[n][p] = "up" /\ p \in peers[n]
    /\ budget.frames > 0
    /\ budget' = [budget EXCEPT !.frames = @ - 1]
    /\ wire' = [wire EXCEPT ![p][n] = @ \o <<Byte(IncomingMessage), GobEncode(msg)>>]
    /\ UNCHANGED <<store, peers, link, rl, wg, rpcch, disp, cl, done, panicked, cfg, finding>>


\* -------------------------------------------------------------- dispatcher
\* a handler of GetFile whose error stops the dispatcher
StopOnMiss(n, from, msg) ==
    /\ IF Has(store[n], msg.ID, msg.Key) /\ from \in peers[n] /\ link[n][from] = "up"
       THEN /\ wire' = SendAll(wire, n, {from},
                    <<Byte(IncomingStream), SizeTok(Len(Read(store[n], msg.ID, msg.Key)))>>
                    \o Bytes(Read(store[n], msg.ID, msg.Key)))
            /\ UNCHANGED disp
       ELSE /\ disp' = [disp EXCEPT ![n].st = "stopped"]
            /\ UNCHANGED wire
    /\ UNCHANGED store

\* FileServer.handleMessageGetFile
handleMessageGetFile(n, from, msg) ==
    /\ IF Has(store[n], msg.ID, msg.Key) /\ from \in peers[n] /\ link[n][from] = "up"
       THEN LET data == Read(store[n], msg.ID, msg.Key)
            IN  wire' = SendAll(wire, n, {from},
                    <<Byte(IncomingStream), SizeTok(Len(data))>> \o Bytes(data))
       ELSE UNCHANGED wire
    /\ UNCHANGED <<store, disp>>

\* FileServer.handleMessageStoreFile, up to the first read of the stream:
\* store.Write has created (or truncated) the file
handleMessageStoreFile(n, from, msg) ==
    /\ IF from \in peers[n]
       THEN /\ store' = [store EXCEPT ![n] = writeStream(@, msg.ID, msg.Key, <<>>)]
            /\ disp'  = [disp EXCEPT ![n] = [st |-> "storing", from |-> from,
                                             id |-> msg.ID, key |-> msg.Key, rem |-> msg.Size]]
       ELSE UNCHANGED <<store, disp>>
    /\ UNCHANGED wire

\* FileServer.loop and handleMessage: the next RPC is decoded and handled
Dispatch(n) ==
    /\ Alive(n) /\ disp[n].st = "idle" /\ rpcch[n] # <<>>
    /\ life[n].loop = "running"
    /\ rpcch' = [rpcch EXCEPT ![n] = Tail(@)]
    /\ LET rpc == Head(rpcch[n])
           msg == GobDecode(rpc.Payload)
       IN  CASE msg.type = "store" -> handleMessageStoreFile(n, rpc.From, msg)
             [] msg.type = "get"   -> handleMessageGetFile(n, rpc.From, msg)
             [] OTHER              -> UNCHANGED <<store, disp, wire>>
    /\ UNCHANGED <<peers, link, rl, wg, cl, done, panicked, budget, cfg, finding>>

\* FileServer.loop and handleMessageStoreFile when store.Write fails before
\* any byte is read (openFileForWriting cannot create the directory or the
\* file): the handler returns the error, the loop logs it and goes on.
DispatchWriteError(n) ==
    /\ Alive(n) /\ disp[n].st = "idle" /\ rpcch[n] # <<>>
    /\ life[n].loop = "running"
    /\ budget.faults > 0
    /\ GobDecode(Head(rpcch[n]).Payload).type = "store"
    /\ Head(rpcch[n]).From \in peers[n]
    /\ budget' = [budget EXCEPT !.faults = @ - 1]
    /\ rpcch' = [rpcch EXCEPT ![n] = Tail(@)]
    /\ UNCHANGED <<store, peers, link, wire, rl, wg, disp, cl, done, panicked, cfg, finding>>

\* FileServer.handleMessageStoreFile: io.Copy from io.LimitReader(peer, Size)
\* into the file, until Size bytes are read or the connection ends; then
\* CloseStream
StoreCopy(n) ==
    /\ Alive(n) /\ disp[n].st = "storing"
    /\ LET p    == disp[n].from
           w    == wire[p][n]
           k    == Min(disp[n].rem, Len(w))
           path == FullPath(disp[n].id, disp[n].key)
           fin  == disp[n].rem = k \/ link[n][p] # "up"
       IN  /\ CanRead(n, p)
           /\ w # <<>> \/ fin
           /\ wire' = [wire EXCEPT ![p][n] = SubSeq(w, k + 1, Len(w))]
           /\ store' = [store EXCEPT ![n] =
                 IF path \in DOMAIN @
                 THEN [@ EXCEPT ![path] = @ \o AsBytes(SubSeq(w, 1, k))]
                 ELSE @]
           /\ IF fin
              THEN /\ disp' = [disp EXCEPT ![n] = DispIdle]
                   /\ CloseStream(n, p)
              ELSE /\ disp' = [disp EXCEPT ![n].rem = @ - k]
                   /\ UNCHANGED <<wg, panicked, link>>
    /\ UNCHANGED <<peers, rl, rpcch, cl, done, budget, cfg, finding>>

\* ------------------------------------------------------- garbage collector
\* GarbageCollector.performCleanup on node n (the collector's goroutine, once
\* started, runs it on every tick): the integrity sweep, then the orphan
\* sweep.  The sweep is entered in the history of the node.
performCleanup(n) ==
    /\ Alive(n) /\ budget.sweeps > 0
    /\ budget' = [budget EXCEPT !.sweeps = @ - 1]
    /\ store' = [store EXCEPT ![n] = cleanOrphanedFiles(verifyIntegrity(@, n), n)]
    /\ done' = [done EXCEPT ![n] = Append(@, Result("gc", <<>>, <<>>, TRUE, "none", {}))]
    /\ UNCHANGED <<peers, link, wire, rl, wg, rpcch, disp, cl, panicked, cfg, finding>>

\* The bytes of a stored file are overwritten on disk behind the store's
\* back (disk fault, another process): the file q of node n now holds data.
\* The history records the user key of the file and the new content.
Alter(n, q, data) ==
    /\ Alive(n) /\ budget.alters > 0
    /\ q \in DOMAIN store[n] /\ q.id = n /\ q.leaf.h = 1 /\ data # store[n][q]
    /\ budget' = [budget EXCEPT !.alters = @ - 1]
    /\ store' = [store EXCEPT ![n][q] = data]
    /\ done' = [done EXCEPT ![n] = Append(@, Result("alter", q.leaf.s, data, TRUE, "none", {}))]
    /\ UNCHANGED <<peers, link, wire, rl, wg, rpcch, disp, cl, panicked, cfg, finding>>

\* ------------------------------------------------------- the store alone
\* owner ids and keys given to a store used on its own: a user key, a user
\* key of another length, and the digest of the first (same first path
\* segment, another leaf)
StoreIds  == {"n1", "n2"}
StoreKeys == {Str(<<0>>), Str(<<0, 1>>), HashKey(Str(<<0>>))}

\* the record of an operation applied to the store
StoreOp(op, id, key, data) == [op |-> op, id |-> id, key |-> key, data |-> data]

\* Store.writeStream(id, key, data) applied to the store of node n
TestWrite(n, id, key, data) ==
    /\ budget.ops > 0
    /\ budget' = [budget EXCEPT !.ops = @ - 1]
    /\ store' = [store EXCEPT ![n] = writeStream(@, id, key, data)]
    /\ done' = [done EXCEPT ![n] = Append(@, StoreOp("write", id, key, data))]
    /\ UNCHANGED <<peers, link, wire, rl, wg, rpcch, disp, cl, panicked, cfg, finding>>

\* Store.Delete(id, key) applied to the store of node n
TestDelete(n, id, key) ==
    /\ budget.ops > 0
    /\ budget' = [budget EXCEPT !.ops = @ - 1]
    /\ store' = [store EXCEPT ![n] = StoreDelete(@, id, key)]
    /\ done' = [done EXCEPT ![n] = Append(@, StoreOp("delete", id, key, <<>>))]
    /\ UNCHANGED <<peers, link, wire, rl, wg, rpcch, disp, cl, panicked, cfg, finding>>

\* ------------------------------------------------------ the cipher alone
\* the record of a call of CopyEncrypt or CopyDecrypt: key, IV drawn (for an
\* encryption), source, bytes written to the destination, count returned
CryptoOp(op, key, iv, src, dst, nw) ==
    [op |-> op, key |-> key, iv |-> iv, src |-> src, dst |-> dst, nw |-> nw]

\* CopyEncrypt(key, payload, dst) with a fresh buffer as destination
TestEncrypt(n, key, iv, payload) ==
    /\ budget.ops > 0
    /\ budget' = [budget EXCEPT !.ops = @ - 1]
    /\ done' = [done EXCEPT ![n] = Append(@,
                   CryptoOp("encrypt", key, iv, payload, CopyEncrypt(key, iv, payload),
                            CopyEncryptN(payload)))]
    /\ UNCHANGED <<store, peers, link, wire, rl, wg, rpcch, disp, cl, panicked, cfg, finding>>

\* CopyDecrypt(key, dst, out) applied to the buffer the last CopyEncrypt filled
TestDecrypt(n, key) ==
    /\ budget.ops > 0 /\ done[n] # <<>> /\ done[n][Len(done[n])].op = "encrypt"
    /\ budget' = [budget EXCEPT !.ops = @ - 1]
    /\ LET src == done[n][Len(done[n])].dst
       IN  done' = [done EXCEPT ![n] = Append(@,
                      CryptoOp("decrypt", key, <<>>, src, CopyDecrypt(key, src),
                               CopyDecryptN(src)))]
    /\ UNCHANGED <<store, peers, link, wire, rl, wg, rpcch, disp, cl, panicked, cfg, finding>>

\* ------------------------------------------------------- registry accesses
\* Goroutine g of node n arrives at a place that touches FileServer.Peers: a
\* place that calls PeerLock.Lock() gets in once the mutex is free and then
\* holds it, any other place gets in at once
RegEnter(n, g, s) ==
    /\ Alive(n) /\ n \in cfg.clients
    /\ reg[n].at[g] = Outside /\ s.by = KindOf(g)
    /\ s.lock => reg[n].holder = ""
    /\ reg' = [reg EXCEPT ![n].at[g] = s,
                          ![n].holder = IF s.lock THEN g ELSE @]
    /\ UNCHANGED <<store, peers, link, wire, rl, wg, rpcch, disp, cl, done, panicked, budget,
                   cfg, known, discovered, dials, life, timing>>

\* Goroutine g of node n is through with the map; PeerLock.Unlock() if the
\* place had locked
RegExit(n, g) ==
    /\ Alive(n) /\ reg[n].at[g] # Outside
    /\ reg' = [reg EXCEPT ![n].at[g] = Outside,
                          ![n].holder = IF @ = g THEN "" ELSE @]
    /\ UNCHANGED <<store, peers, link, wire, rl, wg, rpcch, disp, cl, done, panicked, budget,
                   cfg, known, discovered, dials, life, timing>>

\* ---------------------------------------------------------------- shutdown
\* FileServer.Stop: close(quitch)
Stop(n) ==
    /\ Alive(n) /\ n \in cfg.stops /\ life[n].quitch = "open"
    /\ life' = [life EXCEPT ![n].quitch = "closed"]
    /\ UNCHANGED <<store, peers, link, wire, rl, wg, rpcch, disp, cl, done, panicked, budget,
                   cfg, known, discovered, dials, reg, timing>>

\* FileServer.loop, back at its select with quitch closed: the loop returns
\* and its deferred Transport.Close() closes the listener.  (While a handler
\* runs, the loop is not at the select.)
LoopQuit(n) ==
    /\ Alive(n) /\ life[n].loop = "running" /\ life[n].quitch = "closed"
    /\ disp[n].st = "idle"
    /\ life' = [life EXCEPT ![n].loop = "exited", ![n].listener = "closed"]
    /\ UNCHANGED <<store, peers, link, wire, rl, wg, rpcch, disp, cl, done, panicked, budget,
                   cfg, known, discovered, dials, reg, timing>>

\* TCPTransport.startAcceptLoop: Accept returns net.ErrClosed once the
\* listener is closed, and the loop returns
AcceptExit(n) ==
    /\ Alive(n) /\ life[n].listener = "closed" /\ life[n].accept = "running"
    /\ life' = [life EXCEPT ![n].accept = "exited"]
    /\ UNCHANGED <<store, peers, link, wire, rl, wg, rpcch, disp, cl, done, panicked, budget,
                   cfg, known, discovered, dials, reg, timing>>

\* ------------------------------------------------------------ specification
\* the steps of a client call in progress and of the goroutines of the nodes
Step ==
    \/ \E n \in Nodes : StoreStream(n)
    \/ \E n \in Nodes : GetWake(n)
    \/ \E n \in Nodes, p \in Nodes : GetPeer(n, p)
    \/ \E n \in Nodes : GetFinish(n)
    \/ \E n \in Nodes, p \in Nodes : OnPeer(n, p)
    \/ \E n \in Nodes, p \in Nodes : Decode(n, p)
    \/ \E n \in Nodes, p \in Nodes : Resume(n, p)
    \/ \E n \in Nodes : Dispatch(n)
    \/ \E n \in Nodes : StoreCopy(n)

\* a node is started and dials its bootstrap nodes
Connect == \E a \in Nodes, b \in Nodes : Dial(a, b)

\* the client calls
Call ==
    \/ \E n \in Nodes, name \in cfg.names, data \in cfg.blobs : StoreBegin(n, name, data)
    \/ \E n \in Nodes, name \in cfg.names : GetBegin(n, name)
    \/ \E n \in Nodes, name \in cfg.names : Delete(n, name)

\* connection failures and what only they make possible
Fail ==
    \/ \E a \in Nodes, b \in Nodes : Break(a, b)
    \/ \E n \in Nodes, p \in Nodes : DecodeBody(n, p)

Next == Connect \/ Call \/ Step

Spec == Init /\ [][Next]_vars

NextFail == Connect \/ Call \/ Step \/ Fail

SpecFail == InitFail /\ [][NextFail]_vars

\* a node without peers: no connection, no inbound message
NextLocal ==
    \/ \E n \in Nodes, name \in cfg.names, data \in cfg.blobs : StoreBegin(n, name, data)
    \/ \E n \in Nodes : StoreStream(n)
    \/ \E n \in Nodes, name \in cfg.names : GetBegin(n, name)
    \/ \E n \in Nodes : GetWake(n)
    \/ \E n \in Nodes : GetFinish(n)
    \/ \E n \in Nodes, name \in cfg.names : Delete(n, name)

SpecLocal == InitLocal /\ [][NextLocal]_vars

\* A single node without peers whose garbage collector has been started, and
\* whose files may be altered on disk
InitGC ==
    /\ InitState
    /\ budget   = [ops |-> MaxGCOps, breaks |-> 0, sweeps |-> MaxSweeps, alters |-> MaxAlters]
    /\ cfg      = [names |-> {<<0>>, <<0, 1>>}, blobs |-> SeqsUpTo(1), seeds |-> NoSeeds,
                   clients |-> {"n1"}]

NextGC ==
    \/ \E n \in Nodes, name \in cfg.names, data \in cfg.blobs : StoreBegin(n, name, data)
    \/ \E n \in Nodes : StoreStream(n)
    \/ \E n \in Nodes, name \in cfg.names : GetBegin(n, name)
    \/ \E n \in Nodes : GetWake(n)
    \/ \E n \in Nodes : GetFinish(n)
    \/ \E n \in Nodes, name \in cfg.names : Delete(n, name)
    \/ \E n \in cfg.clients : performCleanup(n)
    \/ \E n \in cfg.clients : \E q \in DOMAIN store[n], data \in cfg.blobs : Alter(n, q, data)

\* A store on its own (no server around it), as the store's test drives it
InitStore ==
    /\ InitState
    /\ budget = [ops |-> MaxStoreOps, breaks |-> 0]
    /\ cfg    = [names |-> {}, blobs |-> Blobs, seeds |-> NoSeeds, clients |-> {}]

NextStore ==
    \/ \E id \in StoreIds, key \in StoreKeys, data \in cfg.blobs : TestWrite("n1", id, key, data)
    \/ \E id \in StoreIds, key \in StoreKeys : TestDelete("n1", id, key)

SpecStore == InitStore /\ [][NextStore]_vars

\* The cipher on its own, as its test drives it: every key, IV and payload
InitCrypto ==
    /\ InitState
    /\ budget = [ops |-> MaxCryptoOps, breaks |-> 0]
    /\ cfg    = [names |-> {}, blobs |-> Blobs, seeds |-> NoSeeds, clients |-> {}]

NextCrypto ==
    \/ \E key \in Bits, iv \in IVs, payload \in cfg.blobs : TestEncrypt("n1", key, iv, payload)
    \/ \E key \in Bits : TestDecrypt("n1", key)

SpecCrypto == InitCrypto /\ [][NextCrypto]_vars

\* Two connected nodes (n2 bootstrapped with n1) whose readers arrive at a
\* connection in any order
InitRace ==
    /\ InitState
    /\ budget = [ops |-> MaxRaceOps, breaks |-> 0]
    /\ cfg    = [names |-> {<<0>>}, blobs |-> {<<1>>},
                 seeds |-> [n \in Nodes |-> IF n = "n2" THEN {"n1"} ELSE {}],
                 clients |-> {"n1", "n2"}, lock |-> FALSE]

SpecRace == InitRace /\ [][Next]_vars

\* Two nodes that are connected and have registered each other; n1 serves
\* the client calls; a store write may fail on the receiving side
InitWedge ==
    /\ store    = [n \in Nodes |-> EmptyStore]
    /\ peers    = [n \in Nodes |-> IF n = "n1" THEN {"n2"} ELSE IF n = "n2" THEN {"n1"} ELSE {}]
    /\ link     = [a \in Nodes |-> [b \in Nodes |->
                       IF {a, b} = {"n1", "n2"} THEN "up" ELSE "none"]]
    /\ wire     = [a \in Nodes |-> [b \in Nodes |-> <<>>]]
    /\ rl       = [a \in Nodes |-> [b \in Nodes |->
                       IF {a, b} = {"n1", "n2"} THEN "decode" ELSE "none"]]
    /\ wg       = [a \in Nodes |-> [b \in Nodes |-> 0]]
    /\ rpcch    = [n \in Nodes |-> <<>>]
    /\ disp     = [n \in Nodes |-> DispIdle]
    /\ cl       = [n \in Nodes |-> Idle]
    /\ done     = [n \in Nodes |-> <<>>]
    /\ panicked = {}
    /\ known      = [n \in Nodes |-> {}]
    /\ discovered = [n \in Nodes |-> {}]
    /\ dials      = [n \in Nodes |-> {}]
    /\ reg        = [n \in Nodes |-> NoAccess]
    /\ life       = [n \in Nodes |-> Running]
    /\ now        = 0
    /\ info       = [n \in Nodes |-> NoInfo]
    /\ launched   = [n \in Nodes |-> <<>>]
    /\ heard      = [n \in Nodes |-> <<>>]
    /\ budget   = [ops |-> MaxWedgeOps, breaks |-> 0, faults |-> MaxFaults]
    /\ cfg      = [names |-> {<<0>>, <<0, 1>>}, blobs |-> SeqsUpTo(1),
                   seeds |-> [n \in Nodes |-> IF n = "n2" THEN {"n1"} ELSE {}],
                   clients |-> {"n1"}, lock |-> TRUE]

\* the goroutines of the two nodes while a Store is replicated
WedgeStep ==
    \/ \E n \in Nodes : StoreStream(n)
    \/ \E n \in Nodes, p \in Nodes : Decode(n, p)
    \/ \E n \in Nodes, p \in Nodes : Resume(n, p)
    \/ \E n \in Nodes : Dispatch(n)
    \/ \E n \in Nodes : StoreCopy(n)

NextWedge ==
    \/ \E n \in Nodes, name \in cfg.names, data \in cfg.blobs : StoreBegin(n, name, data)
    \/ WedgeStep
    \/ \E n \in Nodes : DispatchWriteError(n)

\* every goroutine that can take a step gets to run
SpecWedge == InitWedge /\ [][NextWedge]_vars /\ WF_vars(WedgeStep)

\* Two nodes (n2 bootstrapped with n1) that both serve client calls on one
\* user key: each of them sends to the other from its client call and from
\* its dispatcher
InitShare ==
    InitNet([n \in Nodes |-> IF n = "n2" THEN {"n1"} ELSE {}], {"n1", "n2"},
            MaxShareOps, 0, {<<0>>}, {<<1>>})

SpecShare == InitShare /\ [][Next]_vars

\* Three nodes that have connected to each other and registered each other
\* (n2 bootstrapped with n1, n3 with n1 and n2); the connection between n1
\* and n3 has ended since; every node serves Store calls
InitStall ==
    /\ store    = [n \in Nodes |-> EmptyStore]
    /\ peers    = [n \in Nodes |-> Nodes \ {n}]
    /\ link     = [a \in Nodes |-> [b \in Nodes |->
                       IF a = b THEN "none" ELSE IF {a, b} = {"n1", "n3"} THEN "down" ELSE "up"]]
    /\ wire     = [a \in Nodes |-> [b \in Nodes |-> <<>>]]
    /\ rl       = [a \in Nodes |-> [b \in Nodes |-> IF a = b THEN "none" ELSE "decode"]]
    /\ wg       = [a \in Nodes |-> [b \in Nodes |-> 0]]
    /\ rpcch    = [n \in Nodes |-> <<>>]
    /\ disp     = [n \in Nodes |-> DispIdle]
    /\ cl       = [n \in Nodes |-> Idle]
    /\ done     = [n \in Nodes |-> <<>>]
    /\ panicked = {}
    /\ known      = [n \in Nodes |-> {}]
    /\ discovered = [n \in Nodes |-> {}]
    /\ dials      = [n \in Nodes |-> {}]
    /\ reg        = [n \in Nodes |-> NoAccess]
    /\ life       = [n \in Nodes |-> Running]
    /\ now        = 0
    /\ info       = [n \in Nodes |-> NoInfo]
    /\ launched   = [n \in Nodes |-> <<>>]
    /\ heard      = [n \in Nodes |-> <<>>]
    /\ budget   = [ops |-> MaxStallOps, breaks |-> 0]
    /\ cfg      = [names |-> {<<0>>}, blobs |-> {<<1>>},
                   seeds |-> [n \in Nodes |-> IF n = "n2" THEN {"n1"}
                                              ELSE IF n = "n3" THEN {"n1", "n2"} ELSE {}],
                   clients |-> Nodes, lock |-> TRUE]

\* the goroutines of node n while blobs are replicated
StallStep(n) ==
    \/ StoreStream(n)
    \/ \E p \in Nodes : Decode(n, p)
    \/ \E p \in Nodes : Resume(n, p)
    \/ Dispatch(n)
    \/ StoreCopy(n)

NextStall ==
    \/ \E n \in Nodes, name \in cfg.names, data \in cfg.blobs : StoreBegin(n, name, data)
    \/ \E n \in Nodes : StallStep(n)

\* every goroutine of every node that can take a step gets to run
SpecStall == InitStall /\ [][NextStall]_vars /\ \A n \in Nodes : WF_vars(StallStep(n))

\* Two nodes (n2 bootstrapped with n1) that both serve client calls on one
\* user key and whose connection may fail
InitErr ==
    InitNet([n \in Nodes |-> IF n = "n2" THEN {"n1"} ELSE {}], {"n1", "n2"},
            MaxErrOps, MaxBreaks, {<<0>>}, {<<1>>})

SpecErr == InitErr /\ [][NextFail]_vars

\* The accesses to the registries of two running nodes
InitReg ==
    /\ InitState
    /\ budget = [ops |-> 0, breaks |-> 0]
    /\ cfg    = [names |-> {}, blobs |-> {}, seeds |-> NoSeeds, clients |-> {"n1", "n2"},
                 lock |-> TRUE]

NextReg ==
    \/ \E n \in Nodes, g \in Goroutines, s \in RegSites : RegEnter(n, g, s)
    \/ \E n \in Nodes, g \in Goroutines : RegExit(n, g)

SpecReg == InitReg /\ [][NextReg]_vars

\* The three nodes of InitStall; Stop is called on n2
InitStop ==
    /\ store    = [n \in Nodes |-> EmptyStore]
    /\ peers    = [n \in Nodes |-> Nodes \ {n}]
    /\ link     = [a \in Nodes |-> [b \in Nodes |->
                       IF a = b THEN "none" ELSE IF {a, b} = {"n1", "n3"} THEN "down" ELSE "up"]]
    /\ wire     = [a \in Nodes |-> [b \in Nodes |-> <<>>]]
    /\ rl       = [a \in Nodes |-> [b \in Nodes |-> IF a = b THEN "none" ELSE "decode"]]
    /\ wg       = [a \in Nodes |-> [b \in Nodes |-> 0]]
    /\ rpcch    = [n \in Nodes |-> <<>>]
    /\ disp     = [n \in Nodes |-> DispIdle]
    /\ cl       = [n \in Nodes |-> Idle]
    /\ done     = [n \in Nodes |-> <<>>]
    /\ panicked = {}
    /\ known      = [n \in Nodes |-> {}]
    /\ discovered = [n \in Nodes |-> {}]
    /\ dials      = [n \in Nodes |-> {}]
    /\ reg        = [n \in Nodes |-> NoAccess]
    /\ life       = [n \in Nodes |-> Running]
    /\ now        = 0
    /\ info       = [n \in Nodes |-> NoInfo]
    /\ launched   = [n \in Nodes |-> <<>>]
    /\ heard      = [n \in Nodes |-> <<>>]
    /\ budget   = [ops |-> MaxStopOps, breaks |-> 0]
    /\ cfg      = [names |-> {<<0>>}, blobs |-> {<<1>>},
                   seeds |-> [n \in Nodes |-> IF n = "n2" THEN {"n1"}
                                              ELSE IF n = "n3" THEN {"n1", "n2"} ELSE {}],
                   clients |-> Nodes, lock |-> TRUE, stops |-> {"n2"}]

\* the goroutines of node n while blobs are replicated and the node is
\* being stopped
StopStep(n) ==
    \/ StallStep(n)
    \/ LoopQuit(n)
    \/ AcceptExit(n)

NextStop ==
    \/ \E n \in Nodes, name \in cfg.names, data \in cfg.blobs : StoreBegin(n, name, data)
    \/ \E n \in Nodes : Stop(n)
    \/ \E n \in Nodes : StopStep(n)

\* every goroutine of every node that can take a step gets to run; a select
\* with several ready cases takes each of them sooner or later
SpecStop ==
    /\ InitStop /\ [][NextStop]_vars
    /\ \A n \in Nodes : WF_vars(StallStep(n)) /\ SF_vars(LoopQuit(n)) /\ WF_vars(AcceptExit(n))

SpecGC == InitGC /\ [][NextGC]_vars

\* Local discovery: three nodes without bootstrap nodes, PEX enabled on each,
\* mDNS discovery enabled on n1 and n2
InitDisc ==
    /\ InitState
    /\ budget = [ops |-> 0, breaks |-> 0]
    /\ cfg    = [names |-> {}, blobs |-> {}, seeds |-> NoSeeds, clients |-> {},
                 pex |-> Nodes, mdns |-> {"n1", "n2"}]

NextDisc ==
    \/ \E n \in Nodes, entry \in Entries : handleDiscoveredPeer(n, entry)
    \/ \E n \in Nodes : \E d \in dials[n] : DialAttempt(n, d)
    \/ \E n \in Nodes : \E d \in dials[n] : DialWake(n, d)
    \/ \E n \in Nodes, p \in Nodes : OnPeer(n, p)
    \/ \E n \in Nodes : exchangePeerLists(n)

SpecDisc == InitDisc /\ [][NextDisc]_vars

\* Peer exchange: three nodes with PEX enabled, n2 and n3 bootstrapped with n1
InitPex ==
    /\ InitState
    /\ budget = [ops |-> 0, breaks |-> 0]
    /\ cfg    = [names |-> {}, blobs |-> {}, seeds |-> Seeds, clients |-> {},
                 pex |-> Nodes, mdns |-> {}]

\* what the goroutines of node n do in a network that exchanges peers
PexStep(n) ==
    \/ bootstrapNetwork(n)
    \/ \E d \in dials[n] : DialAttempt(n, d)
    \/ \E d \in dials[n] : DialWake(n, d)
    \/ \E p \in Nodes : OnPeer(n, p)
    \/ exchangePeerLists(n)

NextPex == \E n \in Nodes : PexStep(n)

\* every goroutine gets to run: Go's scheduler is fair and the timers fire
SpecPex == InitPex /\ [][NextPex]_vars /\ \A n \in Nodes : WF_vars(PexStep(n))

\* Two nodes that are connected and have registered each other, a third one
\* that is not connected; nothing stored, nothing known
InitLinked ==
    /\ store    = [n \in Nodes |-> EmptyStore]
    /\ peers    = [n \in Nodes |-> IF n = "n1" THEN {"n2"} ELSE IF n = "n2" THEN {"n1"} ELSE {}]
    /\ link     = [a \in Nodes |-> [b \in Nodes |->
                       IF {a, b} = {"n1", "n2"} THEN "up" ELSE "none"]]
    /\ wire     = [a \in Nodes |-> [b \in Nodes |-> <<>>]]
    /\ rl       = [a \in Nodes |-> [b \in Nodes |->
                       IF {a, b} = {"n1", "n2"} THEN "decode" ELSE "none"]]
    /\ wg       = [a \in Nodes |-> [b \in Nodes |-> 0]]
    /\ rpcch    = [n \in Nodes |-> <<>>]
    /\ disp     = [n \in Nodes |-> DispIdle]
    /\ cl       = [n \in Nodes |-> Idle]
    /\ done     = [n \in Nodes |-> <<>>]
    /\ panicked = {}
    /\ known      = [n \in Nodes |-> {}]
    /\ discovered = [n \in Nodes |-> {}]
    /\ dials      = [n \in Nodes |-> {}]
    /\ reg        = [n \in Nodes |-> NoAccess]
    /\ life       = [n \in Nodes |-> Running]
    /\ now        = 0
    /\ info       = [n \in Nodes |-> NoInfo]
    /\ launched   = [n \in Nodes |-> <<>>]
    /\ heard      = [n \in Nodes |-> <<>>]

\* the peer exchange messages of up to MaxGossipLen entries over the
\* addresses of the three nodes
GossipMsgs ==
    {MessagePeerExchange([i \in 1..Len(q) |-> PeerInfo(AddrOf(q[i]), 0, "pex")]) :
        q \in UNION {[1..k -> Nodes] : k \in 0..MaxGossipLen}}

\* Peer exchange messages on the wire: n1 and n2 are connected and run the
\* peer exchange service, the other end of the connection sends messages
InitGossip ==
    /\ InitLinked
    /\ budget = [ops |-> 0, breaks |-> 0, frames |-> MaxFrames, gossip |-> 0]
    /\ cfg    = [names |-> {}, blobs |-> {}, seeds |-> NoSeeds, clients |-> {},
                 lock |-> TRUE, pex |-> {"n1", "n2"}, mdns |-> {}, until |-> MaxGossipClock]

NextGossip ==
    \/ \E n \in Nodes, p \in Nodes, msg \in GossipMsgs : PeerGossipFrame(p, n, msg)
    \/ \E n \in Nodes, p \in Nodes : Decode(n, p)
    \/ \E n \in Nodes : Dispatch(n)
    \/ \E n \in Nodes : exchangePeerLists(n)
    \/ \E n \in Nodes : cleanupOldPeers(n)
    \/ Tick

SpecGossip == InitGossip /\ [][NextGossip]_vars

\* The peer exchange service called directly: n1 is connected to n2 and runs
\* the service, its handler is called with messages from n2
InitPexCalls ==
    /\ InitLinked
    /\ budget = [ops |-> 0, breaks |-> 0, frames |-> 0, gossip |-> MaxGossip,
                 exchanges |-> MaxExchanges]
    /\ cfg    = [names |-> {}, blobs |-> {}, seeds |-> NoSeeds, clients |-> {},
                 lock |-> TRUE, pex |-> {"n1"}, mdns |-> {}, until |-> MaxPexClock]

NextPexCalls ==
    \/ \E n \in Nodes, p \in Nodes, msg \in GossipMsgs : handleMessagePeerExchange(n, p, msg)
    \/ \E n \in Nodes : periodicExchange(n)
    \/ \E n \in Nodes : cleanupOldPeers(n)
    \/ Tick

SpecPexCalls == InitPexCalls /\ [][NextPexCalls]_vars

\* Local discovery over time: n1 and n2 run mDNS discovery; the queries of n1
\* may return the entries of both and a stale one, and the dials they launch
\* run; the queries of n2 return nothing
InitMdns ==
    /\ InitState
    /\ budget = [ops |-> 0, breaks |-> 0]
    /\ cfg    = [names |-> {}, blobs |-> {}, seeds |-> NoSeeds, clients |-> {},
                 pex |-> {}, mdns |-> {"n1", "n2"}, until |-> MaxMdnsClock]

NextMdns ==
    \/ \E entry \in Entries : handleDiscoveredPeer("n1", entry)
    \/ \E n \in Nodes : \E d \in dials[n] : DialAttempt(n, d)
    \/ \E n \in Nodes : \E d \in dials[n] : DialWake(n, d)
    \/ Tick

SpecMdns == InitMdns /\ [][NextMdns]_vars

\* The discovery cache over time: what DiscoveryService.Start has started on
\* n1 (the discovery loop), and the clock, which keeps running
InitJanitor ==
    /\ InitState
    /\ budget = [ops |-> 0, breaks |-> 0]
    /\ cfg    = [names |-> {}, blobs |-> {}, seeds |-> NoSeeds, clients |-> {},
                 pex |-> {}, mdns |-> {"n1", "n2"}, until |-> MaxJanitorClock]

NextJanitor ==
    \/ \E entry \in Entries : handleDiscoveredPeer("n1", entry)
    \/ \E d \in dials["n1"] : DialAttempt("n1", d)
    \/ Tick

SpecJanitor == InitJanitor /\ [][NextJanitor]_vars /\ WF_vars(Tick)

\* a Store that goes on to the notice while the local copy is still to be
\* written
storeUnwritten(n, name, data) ==
    /\ Alive(n) /\ cl[n].pc = "idle" /\ n \in cfg.clients /\ budget.ops > 0
    /\ budget' = [budget EXCEPT !.ops = @ - 1]
    /\ cl' = [cl EXCEPT ![n] = [pc |-> "storeWritten", name |-> name, data |-> data,
                                todo |-> {}, after |-> {}, asked |-> {}]]
    /\ UNCHANGED <<store, done, peers, link, wire, rl, wg, rpcch, disp, panicked, cfg, finding>>

\* FileServer.Store taken in its two halves, store.Write and broadcast.  The
\* local write comes first: it fails before the file is created (MkdirAll,
\* os.Create) and leaves the store as it was, or in io.Copy and leaves the
\* bytes written so far; either way Store returns the error at once.
storeLocal(n, name, data) ==
    /\ Alive(n) /\ cl[n].pc = "idle" /\ n \in cfg.clients /\ budget.ops > 0
    /\ \/ /\ budget' = [budget EXCEPT !.ops = @ - 1]
          /\ store' = [store EXCEPT ![n] = Write(@, n, Str(name), data)]
          /\ cl' = [cl EXCEPT ![n] = [pc |-> "storeWritten", name |-> name, data |-> data,
                                      todo |-> {}, after |-> {}, asked |-> {}]]
          /\ UNCHANGED done
       \/ /\ budget.faults > 0
          /\ budget' = [budget EXCEPT !.ops = @ - 1, !.faults = @ - 1]
          /\ \/ UNCHANGED store
             \/ \E k \in 0..(Len(data) - 1) :
                  store' = [store EXCEPT ![n] = Write(@, n, Str(name), SubSeq(data, 1, k))]
          /\ Finish(n, Result("store", name, data, FALSE, "write", {}))
    /\ UNCHANGED <<peers, link, wire, rl, wg, rpcch, disp, panicked, cfg, finding>>

\* the second half: the StoreFile notice goes to the peers, up to the sleep
storeNotice(n) ==
    /\ Alive(n) /\ cl[n].pc = "storeWritten"
    /\ LET msg == MessageStoreFile(n, HashKey(Str(cl[n].name)), Len(cl[n].data) + SizeOverhead)
       IN  \E S \in Reached(n, peers[n]) :
             /\ wire' = SendAll(wire, n, S, <<Byte(IncomingMessage), GobEncode(msg)>>)
             /\ IF DownPeers(n, peers[n]) = {}
                THEN /\ cl' = [cl EXCEPT ![n] = [@ EXCEPT !.pc = "storeSleep", !.asked = S]]
                     /\ UNCHANGED done
                ELSE Finish(n, Result("store", cl[n].name, cl[n].data, FALSE, "io", {}))
    /\ UNCHANGED <<store, peers, link, rl, wg, rpcch, disp, panicked, budget, cfg, finding>>

\* Two connected nodes; n1 serves Store calls whose local write may fail, and
\* the connection may end while a call is in progress
InitPut ==
    /\ InitLinked
    /\ budget   = [ops |-> MaxPutOps, breaks |-> MaxPutBreaks, faults |-> MaxFaults]
    /\ cfg      = [names |-> {<<0>>}, blobs |-> SeqsUpTo(MaxPutLen),
                   seeds |-> [n \in Nodes |-> IF n = "n2" THEN {"n1"} ELSE {}],
                   clients |-> {"n1"}, lock |-> TRUE]

NextPut ==
    \/ \E n \in Nodes, name \in cfg.names, data \in cfg.blobs : storeLocal(n, name, data)
    \/ \E n \in Nodes : storeNotice(n)
    \/ \E a \in Nodes, b \in Nodes : Break(a, b)
    \/ WedgeStep

SpecPut == InitPut /\ [][NextPut]_vars

\* -------------------------------------------------------------- properties
Last(s) == s[Len(s)]

\* n has a Get of name in progress
GetPending(n, name) == cl[n].pc \in {"getSleep", "getLoop"} /\ cl[n].name = name

\* No goroutine of any node can take a step: what is pending stays pending until
\* a new client call, a new connection or a connection failure.
Settled == ~ENABLED Step

\* p holds the complete replica of a blob that owner has stored under name
HasReplica(p, owner, name) ==
    /\ Has(store[owner], owner, Str(name))
    /\ Has(store[p], owner, HashKey(Str(name)))
    /\ Len(Read(store[p], owner, HashKey(Str(name))))
         = Len(Read(store[owner], owner, Str(name))) + IVLen

\* C1: in a two-node network (A = n1, B = n2, connected, same encryption
\* key), a Get(name) called on B after Put(name, bytes) has returned on A and
\* reached B, B having no local copy, returns: it is never left pending with
\* no step to take.
C1_RemoteGetReturns ==
    \A name \in cfg.names :
        (/\ link["n1"]["n3"] = "none" /\ link["n1"]["n2"] = "up"
         /\ EncKey("n1") = EncKey("n2")
         /\ GetPending("n2", name)
         /\ "n1" \in cl["n2"].after /\ "n1" \in cl["n2"].asked
         /\ HasReplica("n2", "n1", name))
        => ~Settled

\* the calls between positions i and j of h leave the blob of name alone
Untouched(h, i, j, name) ==
    \A k \in (i + 1)..(j - 1) :
        /\ h[k].op # "delete"
        /\ h[k].op = "store" => h[k].name # name

\* C2: on a single node with no peers in its registry, for every name and
\* byte sequence, a Get(name) that follows Put(name, bytes) returns exactly
\* bytes.
C2_LocalPutThenGet ==
    \A n \in Nodes : \A i \in DOMAIN done[n], j \in DOMAIN done[n] :
        (/\ i < j /\ peers[n] = {}
         /\ done[n][i].op = "store" /\ done[n][i].ok
         /\ done[n][j].op = "get" /\ done[n][j].name = done[n][i].name
         /\ Untouched(done[n], i, j, done[n][i].name))
        => done[n][j].ok /\ done[n][j].data = done[n][i].data

\* a Get has returned the two bytes that the Put before it stored
C2_Witness ==
    \E n \in Nodes :
        /\ Len(done[n]) = 2 /\ peers[n] = {}
        /\ done[n][1].op = "store" /\ done[n][1].ok /\ Len(done[n][1].data) = 2
        /\ done[n][2].op = "get" /\ done[n][2].name = done[n][1].name
        /\ done[n][2].ok /\ done[n][2].data = done[n][1].data

\* a peer has streamed a blob back to the Get in progress on n: the blob is
\* stored locally or its size prefix is the next thing to read
StreamedBack(n) ==
    \/ /\ Has(store[n], n, Str(cl[n].name))
       /\ Read(store[n], n, Str(cl[n].name)) # <<>>
    \/ \E p \in cl[n].todo : wire[p][n] # <<>> /\ Head(wire[p][n]).t = "size"

\* C3: when Get(name) misses locally, the request has gone to every peer of
\* the registry and at least one of them streams the blob back, Get returns,
\* however many peers are connected and whether or not the others respond:
\* it is never left pending with no step to take.
C3_GetReturnsOnFirstResponder ==
    \A n \in Nodes :
        (/\ cl[n].pc = "getLoop" /\ cl[n].todo \subseteq cl[n].asked
         /\ StreamedBack(n))
        => ~Settled

\* C4: once Delete(name) has succeeded on a node and everything sent has been
\* delivered, no connected peer of its registry still holds the blob at
\* (owner, key-id).
C4_DeleteReachesPeers ==
    \A n \in Nodes, p \in Nodes :
        (/\ cl[n].pc = "idle" /\ done[n] # <<>>
         /\ Last(done[n]).op = "delete" /\ Last(done[n]).ok
         /\ p \in peers[n] /\ link[n][p] = "up"
         /\ Settled)
        => ~Has(store[p], n, HashKey(Str(Last(done[n]).name)))

\* C5: a Get(name) that follows a successful Delete(name) on the same node
\* yields not-found, whatever replicas connected peers hold.
C5_DeleteThenGet ==
    \A n \in Nodes : \A i \in DOMAIN done[n] :
        (/\ i > 1
         /\ done[n][i - 1].op = "delete" /\ done[n][i - 1].ok
         /\ done[n][i].op = "get" /\ done[n][i].name = done[n][i - 1].name)
        => ~done[n][i].ok /\ done[n][i].err = "notfound"

\* C6: Put is gated by the quota: right after any Put has returned, the sum
\* of the file sizes under the storage root is at most MaxStorageBytes.
C6_PutGatedByQuota ==
    \A n \in Nodes :
        (cl[n].pc = "idle" /\ done[n] # <<>> /\ Last(done[n]).op = "store")
        => GetCurrentUsage(store[n]) <= MaxStorageBytes

\* handleConn is in its read loop
LoopLive(n, p) == rl[n][p] \in {"decode", "body", "wait"}

\* C7: a peer address is in the registry if and only if the read loop of
\* that peer's connection is live.
C7_RegistryIffLoopLive ==
    \A n \in Nodes, p \in Nodes : p \in peers[n] <=> LoopLive(n, p)

\* C8: a write failure on one peer's connection during a Put does not keep
\* the notice and the complete stream from every other peer: the broadcast
\* and the fan-out each write to every peer of the registry whose connection
\* is up, the Put goes on to the fan-out while such a peer exists, and the
\* local copy is written.
C8_PutSurvivesPeerFailure ==
    [][\A n \in Nodes :
         /\ \A name \in cfg.names, data \in cfg.blobs :
               StoreBegin(n, name, data) =>
                 /\ Has(store'[n], n, Str(name))
                 /\ UpPeers(n, peers[n]) # {} => cl'[n].pc = "storeSleep"
                 /\ \A p \in UpPeers(n, peers[n]) :
                       Len(wire'[n][p]) = Len(wire[n][p]) + 2
         /\ StoreStream(n) =>
               \A p \in UpPeers(n, peers[n]) :
                   Len(wire'[n][p]) = Len(wire[n][p]) + 1 + IVLen + Len(cl[n].data)
      ]_vars

\* no Store was ever called
NothingStored ==
    \A m \in Nodes :
        /\ cl[m].pc # "storeSleep"
        /\ \A i \in DOMAIN done[m] : done[m][i].op # "store"

\* C9: a Get for a name that neither the node nor any connected peer holds
\* terminates with a not-found error and leaves no blob at (self-node-id,
\* name), with zero, one or more peers: once the request has gone to the
\* peers the Get is not left pending with no step to take, a Get that has
\* returned has returned not-found, and no blob exists.
C9_GetMissIsNotFound ==
    \A n \in Nodes :
        NothingStored =>
            /\ (cl[n].pc = "getLoop" /\ cl[n].todo \subseteq cl[n].asked) => ~Settled
            /\ \A i \in DOMAIN done[n] :
                  done[n][i].op = "get" => done[n][i].err = "notfound"
            /\ \A name \in cfg.names : ~Has(store[n], n, Str(name))

\* C10: outside an ongoing write, the SHA-256 digest of the content of every
\* blob in the store equals the blob's leaf name.
C10_LeafIsContentDigest ==
    \A n \in Nodes :
        (cl[n].pc = "idle" /\ disp[n].st = "idle")
        => \A q \in DOMAIN store[n] : calculateFileHash(store[n][q]) = q.leaf

\* the calls and events between positions i and j of h do not write, alter
\* or delete the blob of name
Unchanged(h, i, j, name) ==
    \A k \in (i + 1)..(j - 1) :
        /\ h[k].op # "delete"
        /\ h[k].op \in {"store", "alter"} => h[k].name # name

\* C11: a GC sweep removes only corrupted blobs: a blob that was written by
\* Put and whose on-disk bytes have not changed since is still present, with
\* the same bytes, after every sweep that follows.
C11_SweepKeepsIntactBlobs ==
    \A n \in Nodes : \A i \in DOMAIN done[n], j \in DOMAIN done[n] :
        (/\ i < j /\ j = Len(done[n]) /\ cl[n].pc = "idle"
         /\ done[n][i].op = "store" /\ done[n][i].ok
         /\ done[n][j].op = "gc"
         /\ Unchanged(done[n], i, j + 1, done[n][i].name))
        => /\ Has(store[n], n, Str(done[n][i].name))
           /\ Read(store[n], n, Str(done[n][i].name)) = done[n][i].data

\* C12: if the on-disk bytes of a stored blob are altered after Put so that
\* they no longer hash to the leaf name, the next GC sweep removes the blob,
\* and a Get of its name that follows on a node without peers returns
\* not-found.
C12_SweepRemovesAlteredBlob ==
    \A n \in Nodes : \A i \in DOMAIN done[n], j \in DOMAIN done[n] :
        (/\ i < j /\ peers[n] = {}
         /\ done[n][i].op = "alter"
         /\ calculateFileHash(done[n][i].data) # FullPath(n, Str(done[n][i].name)).leaf
         /\ done[n][j].op = "gc"
         /\ Unchanged(done[n], i, j, done[n][i].name))
        => /\ (j = Len(done[n]) /\ cl[n].pc = "idle")
                => ~Has(store[n], n, Str(done[n][i].name))
           /\ \A k \in DOMAIN done[n] :
                 (/\ j < k /\ done[n][k].op = "get" /\ done[n][k].name = done[n][i].name
                  /\ Unchanged(done[n], j, k, done[n][i].name))
                 => ~done[n][k].ok /\ done[n][k].err = "notfound"

\* a blob was stored, altered so that its digest differs from its leaf,
\* swept away, and the Get that followed returned not-found
C12_Witness ==
    \E n \in Nodes :
        /\ Len(done[n]) = 4 /\ peers[n] = {}
        /\ done[n][1].op = "store" /\ done[n][1].ok
        /\ done[n][2].op = "alter" /\ done[n][2].name = done[n][1].name
        /\ calculateFileHash(done[n][2].data) # FullPath(n, Str(done[n][2].name)).leaf
        /\ done[n][3].op = "gc"
        /\ done[n][4].op = "get" /\ done[n][4].name = done[n][1].name
        /\ done[n][4].err = "notfound"

\* C13: with PEX enabled on A = n1, B = n2 and C = n3, B and C each seeding
\* only A, B and C eventually become connected peers of each other.
C13_PexConnectsSeedSiblings ==
    <>("n3" \in peers["n2"] /\ "n2" \in peers["n3"])

Returned(d) == d.st \in {"ok", "err"}

\* C15: Dial(addr) makes at most MaxRetries connection attempts, separated by
\* the retry delay; it stops at the first successful attempt, where it starts
\* exactly one read loop for the new connection and returns success; it
\* returns a dial error naming addr and the attempt count if and only if
\* every attempt failed.  Safety half: what every step of a call does.
C15_DialStepwise ==
    [][\A n \in Nodes : \A d \in dials[n] :
         /\ d.attempt \in 1..MaxRetries
         /\ Returned(d) => d \in dials'[n]
         /\ DialAttempt(n, d) =>
               \E e \in dials'[n] \ dials[n] :
                  /\ e.addr = d.addr /\ e.attempt = d.attempt
                  /\ \/ /\ e.st = "ok" /\ e.spawned = 1 /\ e.err = NoErr
                        /\ \E m \in Listener(d.addr) :
                              link'[n][m] = "up" /\ rl'[n][m] # "none"
                     \/ /\ e.st = "sleep" /\ d.attempt < MaxRetries
                        /\ e.spawned = 0 /\ e.err = NoErr /\ UNCHANGED <<link, rl>>
                     \/ /\ e.st = "err" /\ d.attempt = MaxRetries /\ e.spawned = 0
                        /\ e.err = [addr |-> d.addr, attempts |-> MaxRetries]
                        /\ UNCHANGED <<link, rl>>
         /\ DialWake(n, d) =>
               \E e \in dials'[n] \ dials[n] :
                  e = [d EXCEPT !.st = "try", !.attempt = d.attempt + 1]
      ]_vars

\* C15, liveness half: every call of Dial returns.
C15_DialReturns ==
    \A n \in Nodes : \A a \in {AddrOf(m) : m \in Nodes} :
        (\E d \in dials[n] : d.addr = a) ~> (\E d \in dials[n] : d.addr = a /\ Returned(d))

\* C15: the two halves together
C15_DialRetries == C15_DialStepwise /\ C15_DialReturns

\* a Dial has connected on its last attempt and another one has returned its
\* error after MaxRetries failed attempts
C15_Witness ==
    /\ \E d \in dials["n2"] : d.st = "ok" /\ d.attempt = MaxRetries /\ d.spawned = 1
    /\ \E d \in dials["n3"] : d.st = "err" /\ d.err.attempts = MaxRetries

\* C16: Put is idempotent on the local store: a Put(name, bytes) that follows
\* a Put(name, bytes) leaves the local store with the same set of blobs and
\* the same contents as the first one left it.
C16_PutIdempotent ==
    [][\A n \in Nodes :
         /\ \A name \in cfg.names, data \in cfg.blobs :
               (/\ StoreBegin(n, name, data)
                /\ done[n] # <<>> /\ Last(done[n]).op = "store" /\ Last(done[n]).ok
                /\ Last(done[n]).name = name /\ Last(done[n]).data = data)
               => store'[n] = store[n]
         /\ StoreStream(n) => store'[n] = store[n]
      ]_vars

\* the same two bytes have been put twice under the same name and the store
\* holds one blob, with these bytes
C16_Witness ==
    \E n \in Nodes :
        /\ Len(done[n]) = 2
        /\ done[n][1].op = "store" /\ done[n][1].ok /\ Len(done[n][1].data) = 2
        /\ done[n][2] = done[n][1]
        /\ DOMAIN store[n] = {FullPath(n, Str(done[n][1].name))}
        /\ Read(store[n], n, Str(done[n][1].name)) = done[n][1].data

\* C17: for any owner id and key of the store: after writeStream(id, key,
\* data), Has(id, key) is true and Read(id, key) returns exactly data; after
\* a Delete(id, key) that follows, Has(id, key) is false.
C17_WriteReadDelete ==
    \A n \in Nodes :
        done[n] # <<>> =>
            LET o == Last(done[n])
            IN  /\ o.op = "write" => /\ Has(store[n], o.id, o.key)
                                     /\ Read(store[n], o.id, o.key) = o.data
                /\ o.op = "delete" => ~Has(store[n], o.id, o.key)

\* two bytes were written under (id, key), which was then deleted
C17_Witness ==
    \E n \in Nodes :
        /\ Len(done[n]) = 2
        /\ done[n][1].op = "write" /\ Len(done[n][1].data) = 2
        /\ done[n][2].op = "delete"
        /\ done[n][2].id = done[n][1].id /\ done[n][2].key = done[n][1].key
        /\ ~Has(store[n], done[n][1].id, done[n][1].key)

\* C18: for every key and payload p, CopyEncrypt writes exactly Len(p) + 16
\* bytes, the IV first; CopyDecrypt applied to that output with the same key
\* yields exactly p and returns Len(p), the 16 bytes of the IV not counted.
C18_EncryptDecryptRoundTrip ==
    \A n \in Nodes : \A i \in DOMAIN done[n] :
        LET o == done[n][i]
        IN  /\ o.op = "encrypt" =>
                  /\ Len(o.dst) = Len(o.src) + 16
                  /\ SubSeq(o.dst, 1, 16) = o.iv
            /\ (o.op = "decrypt" /\ o.key = done[n][i - 1].key) =>
                  /\ o.dst = done[n][i - 1].src
                  /\ o.nw = Len(done[n][i - 1].src)

\* a payload of two bytes was encrypted and decrypted with the same key
C18_Witness ==
    \E n \in Nodes :
        /\ Len(done[n]) = 2
        /\ done[n][1].op = "encrypt" /\ Len(done[n][1].src) = 2
        /\ done[n][2].op = "decrypt" /\ done[n][2].key = done[n][1].key
        /\ done[n][2].dst = done[n][1].src /\ done[n][2].nw = 2

\* bytes of the connection from p to n are consumed in this step
Consumed(n, p) == Len(wire'[p][n]) < Len(wire[p][n])

\* C19: at most one goroutine reads from a peer connection at any time: the
\* StoreFile handler and Get take bytes from a connection only while the
\* read loop of that connection is blocked on the gate (wg.Wait), and the
\* 0x02 marker is always taken by the read loop.
C19_OneReaderAtATime ==
    [][\A n \in Nodes, p \in Nodes :
         /\ (StoreCopy(n) /\ disp[n].from = p /\ Consumed(n, p)) => rl[n][p] = "wait"
         /\ (GetPeer(n, p) /\ p \in cl[n].asked /\ Consumed(n, p)) => rl[n][p] = "wait"
         /\ (/\ Consumed(n, p) /\ wire[p][n] # <<>>
             /\ Head(wire[p][n]) = Byte(IncomingStream)) => Decode(n, p)
      ]_vars

\* C20: every time a read loop blocks on its gate after a 0x02 marker, the
\* consumer of that stream eventually signals completion, when the store
\* write succeeds and when it fails alike, and the read loop resumes
\* reading frames.
C20_GateAlwaysReleased ==
    \A n \in {"n1", "n2"}, p \in {"n1", "n2"} :
        (rl[n][p] = "wait") ~> (rl[n][p] = "decode")

\* C21: the gate counter of every peer is 0 or 1 in every reachable state:
\* CloseStream is called only after the read loop has incremented the gate
\* for the matching 0x02 marker, so the counter never goes negative.
C21_GateCounterZeroOrOne ==
    \A n \in Nodes, p \in Nodes : wg[n][p] \in {0, 1}

\* C22: when a peer connection has been closed by the remote side or a read
\* on it fails, the read loop of that connection exits: the step of the loop
\* that meets the failure publishes no event to the inbound queue and ends
\* the loop.
C22_LoopExitsOnFailure ==
    [][\A n \in Nodes, p \in Nodes :
         (/\ link[n][p] = "down" /\ wire[p][n] = <<>>
          /\ Decode(n, p) \/ DecodeBody(n, p))
         => /\ rpcch'[n] = rpcch[n]
            /\ rl'[n][p] = "exited"
      ]_vars

\* C23: when two tasks of one node send on the same peer connection, the
\* bytes of one message-and-stream sequence are never interleaved with the
\* bytes of the other: between the notice of a Store and its stream, nothing
\* else is written on a connection the notice went to.
C23_NoInterleaving ==
    [][\A n \in Nodes, p \in Nodes :
         (/\ cl[n].pc = "storeSleep" /\ p \in cl[n].asked
          /\ Len(wire'[n][p]) > Len(wire[n][p]))
         => StoreStream(n)
      ]_vars

\* C24: for every Put, the bytes written on each peer connection are, in
\* this order, 0x01, the encoded StoreNotice, 0x02 and then exactly size
\* stream bytes, the size announced in the notice being the plaintext length
\* plus 16: the first half of a Put writes 0x01 and that notice to every
\* peer, the second half writes 0x02 and size bytes to the peers that got
\* the notice and to no other.
C24_PutWireOrder ==
    [][\A n \in Nodes :
         /\ \A name \in cfg.names, data \in cfg.blobs :
               StoreBegin(n, name, data) =>
                 \A p \in peers[n] :
                    wire'[n][p] = wire[n][p] \o
                       <<Byte(1), GobEncode(MessageStoreFile(n, HashKey(Str(name)),
                                                             Len(data) + 16))>>
         /\ StoreStream(n) =>
               \A p \in Nodes \ {n} :
                  IF p \in cl[n].asked
                  THEN /\ Len(wire'[n][p]) = Len(wire[n][p]) + 1 + Len(cl[n].data) + 16
                       /\ wire'[n][p][Len(wire[n][p]) + 1] = Byte(2)
                       /\ SubSeq(wire'[n][p], 1, Len(wire[n][p])) = wire[n][p]
                  ELSE wire'[n][p] = wire[n][p]
      ]_vars

\* C25: every event published to the inbound queue is eventually dispatched
\* to its handler: an event of peer p that is queued while the handler of a
\* StoreNotice reads the stream of another peer is eventually taken off the
\* queue, also when that other peer sends fewer bytes than it announced and
\* keeps its connection open.
C25_QueuedEventDispatched ==
    \A n \in Nodes, p \in Nodes :
        (/\ disp[n].st = "storing" /\ disp[n].from # p /\ link[n][disp[n].from] = "up"
         /\ \E i \in DOMAIN rpcch[n] : rpcch[n][i].From = p)
        ~> (\A i \in DOMAIN rpcch[n] : rpcch[n][i].From # p)

\* the event at the head of the inbound queue of n makes the dispatcher or
\* its handler fail: a payload that is no message, a message of no known
\* variant, a GetFile for a blob that n does not hold, a StoreFile of a
\* sender that is not in the registry
HeadFails(n) ==
    LET rpc == Head(rpcch[n])
        msg == GobDecode(rpc.Payload)
    IN  \/ msg.type \notin {"store", "get"}
        \/ msg.type = "get" /\ ~Has(store[n], msg.ID, msg.Key)
        \/ msg.type = "store" /\ rpc.From \notin peers[n]

\* C26: an undecodable payload, an unknown message variant or a handler
\* error (a GetFile for a blob the node does not hold) never stops the
\* dispatcher and never closes or deregisters a peer: the event is taken off
\* the queue and the dispatcher is ready for the next one.
C26_DispatcherSurvivesErrors ==
    [][\A n \in Nodes :
         (Dispatch(n) /\ HeadFails(n))
         => /\ disp'[n] = DispIdle
            /\ rpcch'[n] = Tail(rpcch[n])
            /\ peers' = peers /\ link' = link /\ rl' = rl /\ panicked' = panicked
      ]_vars

\* n's GetFile request for a blob that p does not hold has been taken off
\* p's queue and answered by nothing, p's dispatcher is idle and the
\* connection is up
C26_Witness ==
    \E n \in Nodes, p \in Nodes :
        /\ cl[n].pc = "getLoop" /\ p \in cl[n].asked /\ p \in cl[n].todo
        /\ ~Has(store[p], n, HashKey(Str(cl[n].name)))
        /\ wire[n][p] = <<>> /\ wire[p][n] = <<>>
        /\ rl[p][n] = "decode" /\ rpcch[p] = <<>> /\ disp[p] = DispIdle
        /\ n \in peers[p] /\ link[p][n] = "up" /\ Alive(p)

\* the copy of the StoreFile handler of n ends in this step with fewer bytes
\* than the notice announced: the connection has ended and what is left on
\* it is less than what the handler still waits for
EndsShort(n) ==
    /\ disp[n].st = "storing"
    /\ link[n][disp[n].from] # "up"
    /\ Len(wire[disp[n].from][n]) < disp[n].rem

\* C27: handling a StoreNotice, the handler fails and writes nothing to the
\* store if the sender is not in the registry; if the connection ends before
\* size stream bytes have arrived, it fails with a truncated-stream error
\* instead of reporting success: it returns the error before it reaches
\* CloseStream, which only the successful path calls.
C27_ShortStreamFails ==
    [][\A n \in Nodes :
         /\ (/\ Dispatch(n)
             /\ GobDecode(Head(rpcch[n]).Payload).type = "store"
             /\ Head(rpcch[n]).From \notin peers[n])
            => store' = store /\ disp'[n] = DispIdle
         /\ (StoreCopy(n) /\ EndsShort(n)) => wg' = wg
      ]_vars

\* C28: every access to the peer registry (the insertion by OnPeer, the
\* iterations of broadcast, of Store's fan-out and of Get, the lookups of the
\* inbound handlers) is performed while holding the registry mutex, so no
\* read of the map is ever concurrent with an insertion.
C28_RegistryUnderMutex ==
    \A n \in Nodes : \A g \in Goroutines, h \in Goroutines :
        /\ reg[n].at[g] # Outside => reg[n].holder = g
        /\ (g # h /\ reg[n].at[g].write) => reg[n].at[h] = Outside

\* the read loop of n's connection to p takes a 0x02 marker in this step
ReadsMarker(n, p) ==
    /\ Decode(n, p) /\ wire[p][n] # <<>> /\ Head(wire[p][n]) = Byte(IncomingStream)

\* the read loop of n's connection to p takes the tag and the body of an
\* encoded message in this step
ReadsMessage(n, p) ==
    /\ Decode(n, p) /\ Len(wire[p][n]) >= 2
    /\ Head(wire[p][n]) = Byte(IncomingMessage) /\ wire[p][n][2].t = "gob"

\* exactly one event, from p and carrying the given body, is pushed to the
\* inbound queue of n in this step
PushesOne(n, p, body) ==
    /\ Len(rpcch'[n]) = Len(rpcch[n]) + 1
    /\ SubSeq(rpcch'[n], 1, Len(rpcch[n])) = rpcch[n]
    /\ Last(rpcch'[n]) = [From |-> p, Payload |-> body]

\* C29, as the specification states it: on reading a 0x02 marker the read
\* loop first pushes an event marked as a stream to the inbound queue and
\* only then blocks on the gate; on a message frame it pushes exactly one
\* event carrying the body.
C29_StreamEventPushed ==
    [][\A n \in Nodes, p \in Nodes :
         /\ ReadsMarker(n, p) =>
               /\ Len(rpcch'[n]) = Len(rpcch[n]) + 1
               /\ rl'[n][p] = "wait"
         /\ ReadsMessage(n, p) => PushesOne(n, p, wire[p][n][2])
      ]_vars

\* C29, as the program behaves: on reading a 0x02 marker the read loop pushes
\* nothing to the inbound queue, increments the gate and blocks on it; on a
\* message frame it pushes exactly one event carrying the body and goes on
\* reading.
C29_StreamEventNotPushed ==
    [][\A n \in Nodes, p \in Nodes :
         /\ ReadsMarker(n, p) =>
               /\ rpcch'[n] = rpcch[n]
               /\ wg'[n][p] = wg[n][p] + 1
               /\ rl'[n][p] = "wait"
         /\ ReadsMessage(n, p) =>
               /\ PushesOne(n, p, wire[p][n][2])
               /\ rl'[n][p] = "decode" /\ wg' = wg
      ]_vars

\* the read loop of n2 has pushed the notice of n1, which the dispatcher has
\* taken, and has then read the marker: it waits on the gate, the queue is
\* empty and the handler is copying the stream
C29_Witness ==
    /\ rl["n2"]["n1"] = "wait" /\ wg["n2"]["n1"] = 1
    /\ rpcch["n2"] = <<>>
    /\ disp["n2"].st = "storing" /\ disp["n2"].from = "n1"

\* C30: after Stop is called, the dispatcher eventually exits and closes the
\* transport listener, and the accept loop then exits; this holds also when
\* Stop is called while a handler is reading a stream.
C30_StopStopsTheNode ==
    \A n \in Nodes :
        (life[n].quitch = "closed")
        ~> (/\ life[n].loop = "exited" /\ life[n].listener = "closed"
            /\ life[n].accept = "exited")


\* the dials of kind src that the record L holds for address a
Launches(L, a, src) == Len(SelectSeq(L, LAMBDA l : l.addr = a /\ l.src = src))

\* the dispatcher of n takes a peer exchange message of a registered peer
\* from the queue
TakesGossip(n) ==
    /\ Dispatch(n)
    /\ Head(rpcch[n]).Payload.t = "gob"
    /\ Head(rpcch[n]).Payload.m.type = "pex"
    /\ Head(rpcch[n]).From \in peers[n]
    /\ n \in cfg.pex

\* C31: when a node with PEX enabled receives a PeerGossip message from a
\* connected peer, every entry that is neither the node's own address nor in
\* the registry nor already known is added to known-peers with source pex and
\* a dial to it is launched; every other entry causes no change and no dial.
C31_GossipAddsNewPeers ==
    [][\A n \in Nodes :
         TakesGossip(n) =>
            LET msg   == Head(rpcch[n]).Payload.m
                fresh == Mentioned(msg) \ ({AddrOf(n)} \cup Connected(n) \cup known[n])
            IN  /\ \A a \in fresh :
                      /\ a \in known'[n]
                      /\ info'[n].peer[a].Source = "pex"
                      /\ Launches(launched'[n], a, "pex") = Launches(launched[n], a, "pex") + 1
                /\ \A a \in Mentioned(msg) \ fresh :
                      /\ a \in known'[n] <=> a \in known[n]
                      /\ Launches(launched'[n], a, "pex") = Launches(launched[n], a, "pex")
      ]_vars

\* the peer exchange messages that node n may send for its snapshot: 1 to
\* 20 records of known peers that are not in the registry
GossipOf(n) ==
    {GobEncode(MessagePeerExchange(q)) :
        q \in UNION {[1..k -> {info[n].peer[a] : a \in GetKnownPeers(n)}] :
                        k \in 1..Min(Cardinality(GetKnownPeers(n)), PexLimit)}}

\* C32: every PeerGossip message sent by the exchange loop carries between 1
\* and 20 entries, each a known peer that was not in the registry when the
\* snapshot was taken, and it is sent to every peer in the registry; when no
\* such known peer exists nothing is sent.
C32_GossipToEveryPeer ==
    [][\A n \in Nodes :
         periodicExchange(n) =>
            IF GetKnownPeers(n) = {}
            THEN UNCHANGED wire
            ELSE \E g \in GossipOf(n) :
                    \A p \in Nodes :
                       wire'[n][p] = IF p \in peers[n]
                                     THEN wire[n][p] \o <<Byte(IncomingMessage), g>>
                                     ELSE wire[n][p]
      ]_vars

\* node n was handed a peer exchange message naming address a no more than
\* PexStale minutes ago
LatelyMentioned(n, a) ==
    \E i \in 1..Len(heard[n]) :
        a \in Mentioned(heard[n][i].msg) /\ now - heard[n][i].at <= PexStale

\* C33: every mention of an already-known address, including its appearance
\* in a received PeerGossip message, refreshes that record's last-seen, so a
\* peer that keeps being mentioned at intervals shorter than 30 minutes is
\* never evicted by the PEX cleanup, while a record whose last-seen is older
\* than 30 minutes is evicted at the next cleanup.
C33_MentionKeepsPeer ==
    /\ [](\A n \in Nodes : \A a \in {AddrOf(m) : m \in Nodes} :
            (n \in cfg.pex /\ a # AddrOf(n) /\ a \notin Connected(n) /\ LatelyMentioned(n, a))
                => a \in known[n])
    /\ [][\A n \in Nodes :
            /\ \A p \in Nodes, msg \in GossipMsgs :
                  (handleMessagePeerExchange(n, p, msg) /\ n \in cfg.pex) =>
                     \A a \in Mentioned(msg) \cap known[n] :
                        a \in known'[n] /\ info'[n].peer[a].LastSeen = now
            /\ cleanupOldPeers(n) =>
                  \A a \in known[n] :
                     a \notin known'[n] <=> info[n].peer[a].LastSeen < now - PexStale
         ]_vars

\* C34: over any sequence of received PeerGossip messages, at most one dial
\* is launched per distinct address for as long as that address stays in
\* known-peers, even when the address appears several times in one message
\* or in several messages: no step launches two dials for an address, and no
\* step launches a dial for an address that is known.
C34_OneDialPerKnownPeer ==
    [][\A n \in Nodes : \A a \in {AddrOf(m) : m \in Nodes} :
         LET k == Launches(launched'[n], a, "pex") - Launches(launched[n], a, "pex")
         IN  k <= 1 /\ (a \in known[n] => k = 0)
      ]_vars

\* n1 was handed a message that names the address of n3 twice and later a
\* second message that names it again; the address is known and one dial
\* was launched for it
C34_Witness ==
    /\ Len(heard["n1"]) = 2
    /\ heard["n1"][1].msg.Peers =
          <<PeerInfo(AddrOf("n3"), 0, "pex"), PeerInfo(AddrOf("n3"), 0, "pex")>>
    /\ AddrOf("n3") \in Mentioned(heard["n1"][2].msg)
    /\ heard["n1"][2].at > heard["n1"][1].at
    /\ AddrOf("n3") \in known["n1"]
    /\ Launches(launched["n1"], AddrOf("n3"), "pex") = 1

\* C35: over any sequence of mDNS responses, a dial is launched for an
\* address only if it is not the node itself and it was not recorded in the
\* discovered-peers cache within the previous 5 minutes, so any two
\* discovery-triggered dials to the same address are at least 5 minutes
\* apart, whether or not the earlier dial succeeded.  Every cache record is
\* made together with a dial, at the time of the dial.
C35_DiscoveryDialsSpaced ==
    \A n \in Nodes :
        LET L == launched[n]
        IN  /\ \A i \in 1..Len(L) : L[i].src = "mdns" => L[i].addr # AddrOf(n)
            /\ \A i \in 1..Len(L) : \A j \in (i + 1)..Len(L) :
                  (L[i].src = "mdns" /\ L[j].src = "mdns" /\ L[i].addr = L[j].addr)
                      => L[j].at - L[i].at >= SuppressWindow
            /\ \A a \in discovered[n] :
                  \E i \in 1..Len(L) :
                     L[i].src = "mdns" /\ L[i].addr = a /\ L[i].at = info[n].seen[a]

\* discovery on n1 has launched two dials for the address of n2, five minutes
\* apart, the first of them failed and the second one connected, and in
\* between an entry for n2 was dropped
C35_Witness ==
    /\ Launches(launched["n1"], AddrOf("n2"), "mdns") = 2
    /\ \E i, j \in 1..Len(launched["n1"]) :
          /\ launched["n1"][i].addr = AddrOf("n2") /\ launched["n1"][j].addr = AddrOf("n2")
          /\ launched["n1"][j].at = launched["n1"][i].at + SuppressWindow
    /\ \E d \in dials["n1"] : d.addr = AddrOf("n2") /\ d.st = "err"
    /\ \E d \in dials["n1"] : d.addr = AddrOf("n2") /\ d.st = "ok"

\* the record of address a in the discovery cache of n is more than ten
\* minutes old
OldEntry(n, a) == a \in discovered[n] /\ info[n].seen[a] < now - DiscoveryStale

\* C36: while mDNS discovery is running, every discovered-peers cache entry
\* whose last-seen is older than 10 minutes is eventually evicted by a
\* periodic janitor task, without any external call.
C36_OldEntriesEvicted ==
    \A n \in Nodes : \A a \in {Advertisement(m) : m \in Nodes} \cup {StaleEntry} :
        [](OldEntry(n, a) => <>(a \notin discovered[n]))

\* the files of node n whose name differs from the digest of their content
Mismatched(f, n) ==
    {q \in DOMAIN f : q.id = n /\ NameLen(q.leaf) = HashLen /\ calculateFileHash(f[q]) # q.leaf}

\* C37: when the integrity sweep finds a blob whose recomputed SHA-256 differs
\* from its leaf name, it removes the whole first-segment subtree that
\* contains the blob under <store-root>/<self-node-id>, i.e. the same subtree
\* that Delete of that key removes: after the sweep nothing is left under
\* that first segment.
C37_SweepRemovesSubtree ==
    [][\A n \in Nodes :
         performCleanup(n) =>
            \A b \in Mismatched(store[n], n) :
               \A q \in DOMAIN store'[n] : ~(q.id = b.id /\ q.first = b.first)
      ]_vars

\* C38: after one complete GC sweep no empty directory remains under
\* <store-root>/<self-node-id>, including directories that became empty only
\* because the sweep itself removed their last child.
C38_SweepLeavesNoEmptyDir ==
    [][\A n \in Nodes :
         performCleanup(n) =>
            \A d \in DOMAIN store'[n] : d.id = n => ~IsEmptyDir(store'[n], d)
      ]_vars

\* C39: Delete(owner, key) removes only that key's blob: for every other key
\* stored under the same owner, including a key whose key-id shares the
\* first 5-character segment with the deleted one, and for every other
\* owner, has() and the stored content are unchanged.
C39_DeleteTouchesOneKey ==
    [][\A id \in StoreIds, key \in StoreKeys :
         (TestDelete("n1", id, key) /\ Has(store["n1"], id, key)) =>
            \A i \in StoreIds, k \in StoreKeys :
               <<i, k>> # <<id, key>> =>
                  /\ Has(store'["n1"], i, k) <=> Has(store["n1"], i, k)
                  /\ Has(store["n1"], i, k) =>
                        Read(store'["n1"], i, k) = Read(store["n1"], i, k)
      ]_vars

\* the peers that some bytes were sent to in this step by n
SentTo(n) == {p \in Nodes : Len(wire'[n][p]) > Len(wire[n][p])}

\* C40: in Put (FileServer.Store) the local copy is completely written
\* before any StoreFile notice byte is sent to any peer: whenever the caller
\* sends bytes to a peer, its own store already holds the whole payload under
\* the key; and a Put whose local write fails returns that error without
\* sending anything to any peer.
C40_LocalCopyBeforeNotice ==
    [][\A n \in cfg.clients :
         /\ SentTo(n) # {} =>
               /\ cl[n].pc \in {"storeWritten", "storeSleep"}
               /\ Has(store[n], n, Str(cl[n].name))
               /\ Read(store[n], n, Str(cl[n].name)) = cl[n].data
         /\ (Len(done'[n]) > Len(done[n]) /\ Last(done'[n]).err = "write") =>
               /\ SentTo(n) = {}
               /\ cl[n].pc = "idle" /\ cl'[n].pc = "idle"
      ]_vars

\* a Put of n1 failed in its local write, and a later Put of a payload was
\* written and announced: its copy was stored by n2
C40_Witness ==
    /\ Len(done["n1"]) = 2
    /\ done["n1"][1].err = "write"
    /\ done["n1"][2].ok /\ done["n1"][2].data # <<>>
    /\ Has(store["n1"], "n1", Str(done["n1"][2].name))
    /\ \E q \in DOMAIN store["n2"] : q.id = "n1"

====
